---- MODULE Spec2Model ----
(***************************************************************************)
(* A model of the in-memory key-value store of                             *)
(* internal/store/memory/memory.go: the map of Values guarded by one       *)
(* sync.RWMutex, the caller operations Set/Get/Update/Remove/Push/Pop, the *)
(* wall clock read by time.Now(), and the TTL worker's sweep.              *)
(*                                                                         *)
(* Every caller operation is split where the code takes or releases the    *)
(* lock: the call up to the lock acquisition (argument validation,         *)
(* Stringify, mu.Lock / mu.RLock) is one step and the critical section up  *)
(* to the unlock is another; Get has its two phases.  Inside one critical  *)
(* section time.Now() is read once: Go's clock is monotonic, so a second   *)
(* reading in the same section (Push, line 193) decides as the first.      *)
(***************************************************************************)
EXTENDS Integers, Sequences, FiniteSets, TLC

\* The clock runs from 1 to MaxTime (instant 0 is Go's zero time.Time).
MaxTime == 3
\* Lists grow to at most MaxLen items.
MaxLen == 2

Keys == {"k1", "k2"}
Threads == {"t1", "t2"}
\* the ttlSeconds arguments callers pass to Set
TTLs == {-1, 0, 1, 2}

----------------------------------------------------------------------------
\* Values of Go's `any` passed to Set/Update/Push: a string, an int, and a
\* channel (which encoding/json cannot marshal).
StrVal(s) == [type |-> "string", str |-> s, num |-> 0]
IntVal(n) == [type |-> "int", str |-> "", num |-> n]
ChanVal == [type |-> "chan", str |-> "", num |-> 0]
Inputs == {StrVal("a"), IntVal(7), ChanVal}

Digit == <<"0", "1", "2", "3", "4", "5", "6", "7", "8", "9">>

RECURSIVE Itoa(_)
Itoa(n) == IF n < 10 THEN Digit[n + 1] ELSE Itoa(n \div 10) \o Digit[(n % 10) + 1]

\* json.Marshal: a string is quoted, an int is its decimal text, a channel
\* is an UnsupportedTypeError.
JsonMarshal(val) ==
    CASE val.type = "string" -> [err |-> FALSE, s |-> "\"" \o val.str \o "\""]
      [] val.type = "int" -> [err |-> FALSE, s |-> Itoa(val.num)]
      [] OTHER -> [err |-> TRUE, s |-> ""]

\* A mutant of Stringify: strings go through json.Marshal too.
StringifyQuoted(val) == JsonMarshal(val)

Stringify(val) ==
    IF val.type = "string" THEN [err |-> FALSE, s |-> val.str] ELSE JsonMarshal(val)

----------------------------------------------------------------------------
\* The errors of memory.go, and nil.
Nil == "nil"
ErrKeyNotFound == "ErrKeyNotFound"
ErrTypeMismatch == "ErrTypeMismatch"
ErrInvalidTTL == "ErrInvalidTTL"
ErrEmptyList == "ErrEmptyList"
ErrMarshalFailed == "ErrMarshalFailed"

\* A map slot: ok is the `ok` of `v, ok := s.data[key]`, the rest is the
\* Value (TTL 0 is the zero time.Time).  An absent key reads as the zero Value.
ZeroValue == [ok |-> FALSE, Val |-> "", TTL |-> 0, IsList |-> FALSE, List |-> <<>>]

\* v.TTL.IsZero() || time.Now().Before(v.TTL)
Live(v, t) == v.TTL = 0 \/ t < v.TTL

\* A mutant of Expired: no entry is ever found expired.
ExpiredNever(v, t) == FALSE

\* !v.TTL.IsZero() && time.Now().After(v.TTL)
Expired(v, t) == v.TTL # 0 /\ t > v.TTL

\* A mutant of ValidTTL: the bound is off by one.
ValidTTLOffByOne(ttlSeconds) == ttlSeconds >= -1

\* Set, line 70: the negation of `ttlSeconds < 0`.
ValidTTL(ttlSeconds) == ttlSeconds >= 0

\* What an operation does to the slot v of its key: the error it returns, the
\* value it returns, and the slot it leaves (v: the slot as it was).
Outcome(err, ret, v) == [err |-> err, ret |-> ret, v |-> v]

\* A mutant of SetEntry: the expiry comes one second late.
SetEntryLate(v, stringValue, ttlSeconds, t) ==
    Outcome(Nil, "", [ok |-> TRUE, Val |-> stringValue,
                      TTL |-> IF ttlSeconds > 0 THEN t + ttlSeconds + 1 ELSE 0,
                      IsList |-> FALSE, List |-> <<>>])

\* A mutant of SetEntry: a zero ttlSeconds is added to the clock like any other.
SetEntryZeroExpires(v, stringValue, ttlSeconds, t) ==
    Outcome(Nil, "", [ok |-> TRUE, Val |-> stringValue, TTL |-> t + ttlSeconds,
                      IsList |-> FALSE, List |-> <<>>])

\* A mutant of SetEntry: the value is written into the entry found at the key.
SetEntryInPlace(v, stringValue, ttlSeconds, t) ==
    Outcome(Nil, "", IF v.ok THEN [v EXCEPT !.Val = stringValue]
                     ELSE [ok |-> TRUE, Val |-> stringValue,
                           TTL |-> IF ttlSeconds > 0 THEN t + ttlSeconds ELSE 0,
                           IsList |-> FALSE, List |-> <<>>])

\* Set, lines 82-89.
SetEntry(v, stringValue, ttlSeconds, t) ==
    Outcome(Nil, "", [ok |-> TRUE, Val |-> stringValue,
                      TTL |-> IF ttlSeconds > 0 THEN t + ttlSeconds ELSE 0,
                      IsList |-> FALSE, List |-> <<>>])

\* Get, lines 96-111, under the read lock: done is FALSE when the entry was
\* found expired and Get goes on to the write lock.
GetFast(v, t) ==
    IF ~v.ok THEN [done |-> TRUE, err |-> ErrKeyNotFound, ret |-> ""]
    ELSE IF Live(v, t)
    THEN IF v.IsList THEN [done |-> TRUE, err |-> ErrTypeMismatch, ret |-> ""]
         ELSE [done |-> TRUE, err |-> Nil, ret |-> v.Val]
    ELSE [done |-> FALSE, err |-> Nil, ret |-> ""]

\* A mutant of GetSlow: the expired entry is reported missing and left in the map.
GetSlowNoDelete(v, t) ==
    IF ~v.ok THEN Outcome(ErrKeyNotFound, "", v)
    ELSE IF Expired(v, t) THEN Outcome(ErrKeyNotFound, "", v)
    ELSE IF v.IsList THEN Outcome(ErrTypeMismatch, "", v)
    ELSE Outcome(Nil, v.Val, v)

\* A mutant of GetSlow: after the lock upgrade whatever is at the key is
\* deleted as expired, without a second look at its TTL.
GetSlowNoRevalidate(v, t) ==
    IF ~v.ok THEN Outcome(ErrKeyNotFound, "", v)
    ELSE Outcome(ErrKeyNotFound, "", ZeroValue)

\* Get, lines 118-132, under the write lock.
GetSlow(v, t) ==
    IF ~v.ok THEN Outcome(ErrKeyNotFound, "", v)
    ELSE IF Expired(v, t) THEN Outcome(ErrKeyNotFound, "", ZeroValue)
    ELSE IF v.IsList THEN Outcome(ErrTypeMismatch, "", v)
    ELSE Outcome(Nil, v.Val, v)

\* A mutant of UpdateEntry: an expired entry is reported missing and left for
\* the worker to delete.
UpdateEntryNoLazy(v, stringValue, t) ==
    IF ~v.ok THEN Outcome(ErrKeyNotFound, "", v)
    ELSE IF Expired(v, t) THEN Outcome(ErrKeyNotFound, "", v)
    ELSE IF v.IsList THEN Outcome(ErrTypeMismatch, "", v)
    ELSE Outcome(Nil, "", [v EXCEPT !.Val = stringValue])

\* A mutant of UpdateEntry: the value is written before the kind is checked.
UpdateEntryWriteFirst(v, stringValue, t) ==
    IF ~v.ok THEN Outcome(ErrKeyNotFound, "", v)
    ELSE IF Expired(v, t) THEN Outcome(ErrKeyNotFound, "", ZeroValue)
    ELSE IF v.IsList THEN Outcome(ErrTypeMismatch, "", [v EXCEPT !.Val = stringValue])
    ELSE Outcome(Nil, "", [v EXCEPT !.Val = stringValue])

\* A mutant of UpdateEntry: the entry is rebuilt from the new value alone.
UpdateEntryResetTTL(v, stringValue, t) ==
    IF ~v.ok THEN Outcome(ErrKeyNotFound, "", v)
    ELSE IF Expired(v, t) THEN Outcome(ErrKeyNotFound, "", ZeroValue)
    ELSE IF v.IsList THEN Outcome(ErrTypeMismatch, "", v)
    ELSE Outcome(Nil, "", [v EXCEPT !.Val = stringValue, !.TTL = 0])

\* A mutant of UpdateEntry: a missing or expired key is written like Set would.
UpdateEntryUpsert(v, stringValue, t) ==
    IF ~v.ok \/ Expired(v, t)
    THEN Outcome(Nil, "", [ZeroValue EXCEPT !.ok = TRUE, !.Val = stringValue])
    ELSE IF v.IsList THEN Outcome(ErrTypeMismatch, "", v)
    ELSE Outcome(Nil, "", [v EXCEPT !.Val = stringValue])

\* A mutant of UpdateEntry: a live List is turned into a Scalar holding the
\* new value.
UpdateEntryCoerce(v, stringValue, t) ==
    IF ~v.ok THEN Outcome(ErrKeyNotFound, "", v)
    ELSE IF Expired(v, t) THEN Outcome(ErrKeyNotFound, "", ZeroValue)
    ELSE Outcome(Nil, "", [v EXCEPT !.Val = stringValue, !.IsList = FALSE,
                                    !.List = <<>>])

\* Update, lines 145-162.
UpdateEntry(v, stringValue, t) ==
    IF ~v.ok THEN Outcome(ErrKeyNotFound, "", v)
    ELSE IF Expired(v, t) THEN Outcome(ErrKeyNotFound, "", ZeroValue)
    ELSE IF v.IsList THEN Outcome(ErrTypeMismatch, "", v)
    ELSE Outcome(Nil, "", [v EXCEPT !.Val = stringValue])

\* A mutant of RemoveEntry: the entry is emptied and its key stays in the map.
RemoveEntryClear(v) ==
    IF ~v.ok THEN Outcome(ErrKeyNotFound, "", v)
    ELSE Outcome(Nil, "", [v EXCEPT !.Val = "", !.List = <<>>])

\* Remove, lines 170-175.
RemoveEntry(v) ==
    IF ~v.ok THEN Outcome(ErrKeyNotFound, "", v) ELSE Outcome(Nil, "", ZeroValue)

\* A mutant of PushEntry: a scalar entry is turned into a list of the item.
PushEntryCoerce(v, stringItem, t) ==
    LET b == IF ~v.ok \/ Expired(v, t) \/ ~v.IsList
             THEN [ok |-> TRUE, Val |-> "", TTL |-> 0, IsList |-> TRUE, List |-> <<>>]
             ELSE v
    IN  Outcome(Nil, "", [b EXCEPT !.List = <<stringItem>> \o @])

\* A mutant of PushEntry: an expired entry is pushed onto like a live one.
PushEntryOntoExpired(v, stringItem, t) ==
    LET b == IF ~v.ok
             THEN [ok |-> TRUE, Val |-> "", TTL |-> 0, IsList |-> TRUE, List |-> <<>>]
             ELSE v
    IN  IF ~b.IsList THEN Outcome(ErrTypeMismatch, "", v)
        ELSE Outcome(Nil, "", [b EXCEPT !.List = <<stringItem>> \o @])

\* A mutant of PushEntry: the list that replaces an expired entry is made of
\* that entry and keeps its TTL.
PushEntryKeepTTL(v, stringItem, t) ==
    LET b == IF ~v.ok
             THEN [ok |-> TRUE, Val |-> "", TTL |-> 0, IsList |-> TRUE, List |-> <<>>]
             ELSE IF Expired(v, t)
             THEN [v EXCEPT !.Val = "", !.IsList = TRUE, !.List = <<>>]
             ELSE v
    IN  IF ~b.IsList THEN Outcome(ErrTypeMismatch, "", v)
        ELSE Outcome(Nil, "", [b EXCEPT !.List = <<stringItem>> \o @])

\* A mutant of PushEntry: the item is appended at the end of the list.
PushEntryAppend(v, stringItem, t) ==
    LET b == IF ~v.ok \/ Expired(v, t)
             THEN [ok |-> TRUE, Val |-> "", TTL |-> 0, IsList |-> TRUE, List |-> <<>>]
             ELSE v
    IN  IF ~b.IsList THEN Outcome(ErrTypeMismatch, "", v)
        ELSE Outcome(Nil, "", [b EXCEPT !.List = Append(@, stringItem)])

\* Push, lines 188-205: a missing or expired key gets a new empty list first.
PushEntry(v, stringItem, t) ==
    LET b == IF ~v.ok \/ Expired(v, t)
             THEN [ok |-> TRUE, Val |-> "", TTL |-> 0, IsList |-> TRUE, List |-> <<>>]
             ELSE v
    IN  IF ~b.IsList THEN Outcome(ErrTypeMismatch, "", v)
        ELSE Outcome(Nil, "", [b EXCEPT !.List = <<stringItem>> \o @])

\* A mutant of PopEntry: the front item is returned and stays in the list.
PopEntryPeek(v, t) ==
    IF ~v.ok THEN Outcome(ErrKeyNotFound, "", v)
    ELSE IF Expired(v, t) THEN Outcome(ErrKeyNotFound, "", ZeroValue)
    ELSE IF ~v.IsList THEN Outcome(ErrTypeMismatch, "", v)
    ELSE IF Len(v.List) = 0 THEN Outcome(ErrEmptyList, "", v)
    ELSE Outcome(Nil, Head(v.List), v)

\* A mutant of PopEntry: the kind is checked before the expiry.
PopEntryKindFirst(v, t) ==
    IF ~v.ok THEN Outcome(ErrKeyNotFound, "", v)
    ELSE IF ~v.IsList THEN Outcome(ErrTypeMismatch, "", v)
    ELSE IF Expired(v, t) THEN Outcome(ErrKeyNotFound, "", ZeroValue)
    ELSE IF Len(v.List) = 0 THEN Outcome(ErrEmptyList, "", v)
    ELSE Outcome(Nil, Head(v.List), [v EXCEPT !.List = Tail(@)])

\* A mutant of PopEntry: the key of a list that the Pop empties is deleted.
PopEntryDropEmpty(v, t) ==
    IF ~v.ok THEN Outcome(ErrKeyNotFound, "", v)
    ELSE IF Expired(v, t) THEN Outcome(ErrKeyNotFound, "", ZeroValue)
    ELSE IF ~v.IsList THEN Outcome(ErrTypeMismatch, "", v)
    ELSE IF Len(v.List) = 0 THEN Outcome(ErrEmptyList, "", v)
    ELSE IF Len(v.List) = 1 THEN Outcome(Nil, Head(v.List), ZeroValue)
    ELSE Outcome(Nil, Head(v.List), [v EXCEPT !.List = Tail(@)])

\* Pop, lines 213-235.
PopEntry(v, t) ==
    IF ~v.ok THEN Outcome(ErrKeyNotFound, "", v)
    ELSE IF Expired(v, t) THEN Outcome(ErrKeyNotFound, "", ZeroValue)
    ELSE IF ~v.IsList THEN Outcome(ErrTypeMismatch, "", v)
    ELSE IF Len(v.List) = 0 THEN Outcome(ErrEmptyList, "", v)
    ELSE Outcome(Nil, Head(v.List), [v EXCEPT !.List = Tail(@)])

\* A mutant of SweepEntry: every entry that has a TTL is deleted.
SweepEntryAnyTTL(v, t) == IF v.TTL # 0 THEN ZeroValue ELSE v

\* A mutant of SweepEntry: the worker looks at the entry and deletes nothing.
SweepEntryKeep(v, t) == v

\* The worker's range loop, lines 275-277, on one entry.
SweepEntry(v, t) == IF Expired(v, t) THEN ZeroValue ELSE v

----------------------------------------------------------------------------
VARIABLES
    data,   \* s.data: Keys -> map slot
    now,    \* the clock time.Now() reads
    mu,     \* s.mu: [w: the holder of the write lock or "none", r: the read-lock holders]
    pc,     \* each caller's position: "idle", or the section of the operation it is in
    arg,    \* each caller's arguments and locals (key, value, ttlSeconds, stringValue,
            \* v, the entry Get read under the read lock, old, the token
            \* StartTTLWorker and StopTTLWorker found in s.ttlCtx, and req, the
            \* HTTP request the call is made for)
    ttlCtx, \* s.ttlCtx with s.ttlCancel: the current cancellation token, 0 for nil
    cancelled, \* the tokens that were cancelled and that a worker still holds
    wpc,    \* each worker goroutine's position: "none" (no such goroutine),
            \* "wait" (in the select, on the ticker and ctx.Done()) or "scan"
    wctx,   \* the token each worker goroutine captured (ctx), 0 for none
    wrem,   \* the keys each worker's range loop has still to visit
    wreq,   \* the workers in whose present scan StopTTLWorker or StartTTLWorker
            \* was called (a history variable)
    resp,   \* the response the last step returned to its caller, if it returned one
    hist    \* per key, what the callers last wrote and pushed there (a history variable)

worker == <<ttlCtx, cancelled, wpc, wctx, wrem, wreq>>
vars == <<data, now, mu, pc, arg, worker, resp, hist>>

NoVal == [type |-> "none", str |-> "", num |-> 0]
\* An HTTP request: the handler the mux routes it to, its method, whether its
\* body decodes as JSON, and the key (of the body, or of the path for the
\* routes under /api/v1/keys/), value or item, and ttl_seconds it carries, a
\* field that the body leaves out being the zero value; c is the method of
\* pkg/client that sent it, "none" for a request sent otherwise.  NoRequest:
\* the call was not made for an HTTP request.
NoRequest == [h |-> "none", method |-> "", json |-> FALSE, Key |-> "", Value |-> NoVal,
              TTLSeconds |-> 0, c |-> "none"]
NoArg == [key |-> "", val |-> NoVal, ttl |-> 0, stringValue |-> "", v |-> ZeroValue,
          old |-> 0, req |-> NoRequest]
NoResp == [t |-> "none", op |-> "none", key |-> "", val |-> NoVal, ttl |-> 0,
           err |-> "none", ret |-> "", v |-> ZeroValue, seen |-> ZeroValue,
           old |-> 0, req |-> NoRequest, status |-> 0, error |-> <<>>,
           cerr |-> <<>>]
\* hist[k]: set is TRUE from a successful Set on k until a successful Remove
\* or Push on k; val is the argument of the last successful Set or Update,
\* exp the instant that Set's ttlSeconds fixed (0: none); items are the
\* arguments of the successful Pushes on k since the last successful Set or
\* Remove that no successful Pop has answered yet, the latest first.
NoHist == [set |-> FALSE, val |-> NoVal, exp |-> 0, items |-> <<>>]

\* The goroutines doStartTTLWorker can have running at a time (a third one is
\* started only when one of these has returned), in the order their slots are
\* taken; WorkerId is the one NewMemoryStore starts.
Workers == {"w1", "w2"}
WorkerOrder == <<"w1", "w2">>
WorkerId == "w1"

\* context.WithCancel: the tokens.  A token that neither s.ttlCtx nor a
\* goroutine holds is forgotten, and its number is given again.
Tokens == 1..(Cardinality(Workers) + 2)
Held(c, wp, wc) == {tok \in c : \E w \in Workers : wp[w] # "none" /\ wc[w] = tok}

LockFree == mu.w = "none" /\ mu.r = {}
Lock(h) == LockFree /\ mu' = [mu EXCEPT !.w = h]
Unlock(h) == mu' = [mu EXCEPT !.w = "none"]
RLock(t) == mu.w = "none" /\ mu' = [mu EXCEPT !.r = @ \cup {t}]
RUnlock(t) == mu' = [mu EXCEPT !.r = @ \ {t}]

\* err.Error(): the messages of the errors, memory.go lines 13-17.
ErrorText(err) ==
    CASE err = ErrKeyNotFound -> "key not found"
      [] err = ErrTypeMismatch -> "operation not supported for this data type"
      [] err = ErrInvalidTTL -> "invalid TTL value"
      [] err = ErrEmptyList -> "list is empty"
      [] err = ErrMarshalFailed -> "failed to marshal value to JSON"
      [] OTHER -> ""

\* writeError and writeSuccess: the status code and the error message (a
\* text, or the text fmt.Sprintf puts before the store's message and that
\* message) of the HTTP response.
HTTPResponse(status, error) == [status |-> status, error |-> error]
NoResponse == HTTPResponse(0, <<>>)
StatusOK == 200
StatusBadRequest == 400
StatusNotFound == 404
StatusMethodNotAllowed == 405
StatusInternalServerError == 500

\* What handler h answers when its store call has returned err: the part of
\* each handler after the call.
WriteResponse(h, err) ==
    LET failed(text) == HTTPResponse(StatusInternalServerError, <<text, ErrorText(err)>>)
        notFound == HTTPResponse(StatusNotFound, <<"Key not found">>) IN
    CASE h = "none" -> NoResponse
      [] err = Nil -> HTTPResponse(StatusOK, <<>>)
      [] h = "SetHandler" -> failed("Failed to set key: ")
      [] h = "GetHandler" ->
            IF ErrorText(err) = "key not found" THEN notFound
            ELSE failed("Failed to get key: ")
      [] h = "UpdateHandler" ->
            IF ErrorText(err) = "key not found" THEN notFound
            ELSE failed("Failed to update key: ")
      [] h = "RemoveHandler" ->
            IF ErrorText(err) = "key not found" THEN notFound
            ELSE failed("Failed to remove key: ")
      [] h = "PushHandler" -> failed("Failed to push item: ")
      [] h = "PopHandler" ->
            IF ErrorText(err) = "key not found" THEN notFound
            ELSE IF ErrorText(err) = "empty list"
            THEN HTTPResponse(StatusBadRequest, <<"List is empty">>)
            ELSE failed("Failed to pop item: ")

\* Client.doRequest, client.go lines 287-297, on the response it read: the
\* error the client method returns (the texts it is made of, none for nil).
\* writeError answers success = false, writeSuccess success = true.
ClientError(c, response) ==
    IF c # "none" /\ response.status # StatusOK
    THEN <<"API error: ">> \o response.error
    ELSE <<>>

\* The caller returns: it leaves its operation with a response (the error, the
\* value returned, the slot v the operation found at its key, for a Get that
\* went on to the write lock the entry seen under the read lock, and for
\* StartTTLWorker and StopTTLWorker the token found in s.ttlCtx).  When an
\* HTTP handler made the call, the handler writes its response, and the
\* client method that sent the request returns.
Return(t, op, a, err, ret, v) ==
    /\ pc' = [pc EXCEPT ![t] = "idle"]
    /\ arg' = [arg EXCEPT ![t] = NoArg]
    /\ resp' = [t |-> t, op |-> op, key |-> a.key, val |-> a.val, ttl |-> a.ttl,
                err |-> err, ret |-> ret, v |-> v, seen |-> a.v, old |-> a.old,
                req |-> a.req, status |-> WriteResponse(a.req.h, err).status,
                error |-> WriteResponse(a.req.h, err).error,
                cerr |-> ClientError(a.req.c, WriteResponse(a.req.h, err))]

\* The caller moves to section cs with arguments a.
Enter(t, cs, a) ==
    /\ pc' = [pc EXCEPT ![t] = cs]
    /\ arg' = [arg EXCEPT ![t] = a]
    /\ resp' = NoResp

Init ==
    /\ data = [k \in Keys |-> ZeroValue]
    /\ now = 1
    /\ mu = [w |-> "none", r |-> {}]
    /\ pc = [t \in Threads |-> "idle"]
    /\ arg = [t \in Threads |-> NoArg]
    /\ ttlCtx = 1
    /\ cancelled = {}
    /\ wpc = [w \in Workers |-> IF w = WorkerId THEN "wait" ELSE "none"]
    /\ wctx = [w \in Workers |-> IF w = WorkerId THEN 1 ELSE 0]
    /\ wrem = [w \in Workers |-> {}]
    /\ wreq = {}
    /\ resp = NoResp
    /\ hist = [k \in Keys |-> NoHist]

\* Time passes.
Tick ==
    /\ now < MaxTime
    /\ now' = now + 1
    /\ resp' = NoResp
    /\ UNCHANGED <<data, mu, pc, arg, worker, hist>>

\* A mutant of CallSet: Stringify comes before the TTL check.
CallSetStringifyFirst(req, t, k, val, ttlSeconds) ==
    LET a == [NoArg EXCEPT !.req = req, !.key = k, !.val = val, !.ttl = ttlSeconds,
                           !.stringValue = Stringify(val).s] IN
    /\ pc[t] = "idle"
    /\ IF Stringify(val).err
       THEN /\ Return(t, "Set", a, ErrMarshalFailed, "", ZeroValue)
            /\ UNCHANGED <<data, now, mu, worker, hist>>
       ELSE IF ~ValidTTL(ttlSeconds)
       THEN /\ Return(t, "Set", a, ErrInvalidTTL, "", ZeroValue)
            /\ UNCHANGED <<data, now, mu, worker, hist>>
       ELSE /\ Lock(t)
            /\ Enter(t, "Set", a)
            /\ UNCHANGED <<data, now, worker, hist>>

----------------------------------------------------------------------------
\* Set, lines 69-80: the TTL check, Stringify, then mu.Lock().
CallSet(req, t, k, val, ttlSeconds) ==
    LET a == [NoArg EXCEPT !.req = req, !.key = k, !.val = val, !.ttl = ttlSeconds,
                           !.stringValue = Stringify(val).s] IN
    /\ pc[t] = "idle"
    /\ IF ~ValidTTL(ttlSeconds)
       THEN /\ Return(t, "Set", a, ErrInvalidTTL, "", ZeroValue)
            /\ UNCHANGED <<data, now, mu, worker, hist>>
       ELSE IF Stringify(val).err
       THEN /\ Return(t, "Set", a, ErrMarshalFailed, "", ZeroValue)
            /\ UNCHANGED <<data, now, mu, worker, hist>>
       ELSE /\ Lock(t)
            /\ Enter(t, "Set", a)
            /\ UNCHANGED <<data, now, worker, hist>>

\* Set called by the program that holds the store.
Set(t, k, val, ttlSeconds) == CallSet(NoRequest, t, k, val, ttlSeconds)

\* Set, lines 82-89, and the deferred mu.Unlock().
SetCS(t) ==
    LET a == arg[t]
        v == data[a.key]
        o == SetEntry(v, a.stringValue, a.ttl, now) IN
    /\ pc[t] = "Set"
    /\ data' = [data EXCEPT ![a.key] = o.v]
    /\ hist' = [hist EXCEPT ![a.key] =
                   [set |-> TRUE, val |-> a.val,
                    exp |-> IF a.ttl > 0 THEN now + a.ttl ELSE 0,
                    items |-> <<>>]]
    /\ Unlock(t)
    /\ Return(t, "Set", a, o.err, o.ret, v)
    /\ UNCHANGED <<now, worker>>

\* Get, line 94: mu.RLock().
CallGet(req, t, k) ==
    /\ pc[t] = "idle"
    /\ RLock(t)
    /\ Enter(t, "GetR", [NoArg EXCEPT !.req = req, !.key = k])
    /\ UNCHANGED <<data, now, worker, hist>>

\* Get called by the program that holds the store.
Get(t, k) == CallGet(NoRequest, t, k)

\* A mutant of GetRead: an entry found expired is deleted there and then,
\* under the read lock.
GetReadDeletes(t) ==
    LET a == arg[t]
        v == data[a.key]
        o == GetFast(v, now) IN
    /\ pc[t] = "GetR"
    /\ RUnlock(t)
    /\ IF o.done THEN Return(t, "Get", a, o.err, o.ret, v) /\ data' = data
       ELSE /\ Return(t, "Get", a, ErrKeyNotFound, "", v)
            /\ data' = [data EXCEPT ![a.key] = ZeroValue]
    /\ UNCHANGED <<now, worker, hist>>

\* A mutant of GetRead: a Get that found its entry expired goes on to
\* mu.Lock() with the read lock still held.
GetReadKeepsRLock(t) ==
    LET a == arg[t]
        v == data[a.key]
        o == GetFast(v, now) IN
    /\ pc[t] = "GetR"
    /\ IF o.done THEN RUnlock(t) /\ Return(t, "Get", a, o.err, o.ret, v)
       ELSE mu' = mu /\ Enter(t, "GetU", [a EXCEPT !.v = v])
    /\ UNCHANGED <<data, now, worker, hist>>

\* Get, lines 96-114: the read under the read lock, up to mu.RUnlock().
GetRead(t) ==
    LET a == arg[t]
        v == data[a.key]
        o == GetFast(v, now) IN
    /\ pc[t] = "GetR"
    /\ RUnlock(t)
    /\ IF o.done THEN Return(t, "Get", a, o.err, o.ret, v)
       ELSE Enter(t, "GetU", [a EXCEPT !.v = v])
    /\ UNCHANGED <<data, now, worker, hist>>

\* Get, line 115: mu.Lock(), after the read lock was released.
GetLock(t) ==
    /\ pc[t] = "GetU"
    /\ Lock(t)
    /\ Enter(t, "GetW", arg[t])
    /\ UNCHANGED <<data, now, worker, hist>>

\* A mutant of GetCS: no re-fetch, the entry read under the read lock is
\* validated and its key deleted.
GetCSNoRefetch(t) ==
    LET a == arg[t]
        v == a.v
        o == GetSlow(v, now) IN
    /\ pc[t] = "GetW"
    /\ data' = [data EXCEPT ![a.key] = o.v]
    /\ Unlock(t)
    /\ Return(t, "Get", a, o.err, o.ret, v)
    /\ UNCHANGED <<now, worker, hist>>

\* A mutant of GetCS: with the write lock in hand, Get deletes every expired
\* entry of the map.
GetCSPurges(t) ==
    LET a == arg[t]
        v == data[a.key]
        o == GetSlow(v, now) IN
    /\ pc[t] = "GetW"
    /\ data' = [k \in Keys |-> IF k = a.key THEN o.v ELSE SweepEntry(data[k], now)]
    /\ Unlock(t)
    /\ Return(t, "Get", a, o.err, o.ret, v)
    /\ UNCHANGED <<now, worker, hist>>

\* Get, lines 118-132: the re-fetch under the write lock, and the deferred
\* mu.Unlock().
GetCS(t) ==
    LET a == arg[t]
        v == data[a.key]
        o == GetSlow(v, now) IN
    /\ pc[t] = "GetW"
    /\ data' = [data EXCEPT ![a.key] = o.v]
    /\ Unlock(t)
    /\ Return(t, "Get", a, o.err, o.ret, v)
    /\ UNCHANGED <<now, worker, hist>>

\* Update, lines 136-143: Stringify, then mu.Lock().
CallUpdate(req, t, k, val) ==
    LET a == [NoArg EXCEPT !.req = req, !.key = k, !.val = val, !.stringValue = Stringify(val).s] IN
    /\ pc[t] = "idle"
    /\ IF Stringify(val).err
       THEN /\ Return(t, "Update", a, ErrMarshalFailed, "", ZeroValue)
            /\ UNCHANGED <<data, now, mu, worker, hist>>
       ELSE /\ Lock(t)
            /\ Enter(t, "Update", a)
            /\ UNCHANGED <<data, now, worker, hist>>

\* Update called by the program that holds the store.
Update(t, k, val) == CallUpdate(NoRequest, t, k, val)

\* Update, lines 145-162, and the deferred mu.Unlock().
UpdateCS(t) ==
    LET a == arg[t]
        v == data[a.key]
        o == UpdateEntry(v, a.stringValue, now) IN
    /\ pc[t] = "Update"
    /\ data' = [data EXCEPT ![a.key] = o.v]
    /\ hist' = IF o.err = Nil THEN [hist EXCEPT ![a.key].val = a.val] ELSE hist
    /\ Unlock(t)
    /\ Return(t, "Update", a, o.err, o.ret, v)
    /\ UNCHANGED <<now, worker>>

\* Remove, lines 167-168: mu.Lock().
CallRemove(req, t, k) ==
    /\ pc[t] = "idle"
    /\ Lock(t)
    /\ Enter(t, "Remove", [NoArg EXCEPT !.req = req, !.key = k])
    /\ UNCHANGED <<data, now, worker, hist>>

\* Remove called by the program that holds the store.
Remove(t, k) == CallRemove(NoRequest, t, k)

\* A mutant of RemoveCS: an expired entry is deleted and reported missing, as
\* Update and Pop do.
RemoveCSLazy(t) ==
    LET a == arg[t]
        v == data[a.key]
        o == IF Expired(v, now) THEN Outcome(ErrKeyNotFound, "", ZeroValue)
             ELSE RemoveEntry(v) IN
    /\ pc[t] = "Remove"
    /\ data' = [data EXCEPT ![a.key] = o.v]
    /\ hist' = IF o.err = Nil THEN [hist EXCEPT ![a.key] = NoHist] ELSE hist
    /\ Unlock(t)
    /\ Return(t, "Remove", a, o.err, o.ret, v)
    /\ UNCHANGED <<now, worker>>

\* Remove, lines 170-175, and the deferred mu.Unlock().
RemoveCS(t) ==
    LET a == arg[t]
        v == data[a.key]
        o == RemoveEntry(v) IN
    /\ pc[t] = "Remove"
    /\ data' = [data EXCEPT ![a.key] = o.v]
    /\ hist' = IF o.err = Nil THEN [hist EXCEPT ![a.key] = NoHist] ELSE hist
    /\ Unlock(t)
    /\ Return(t, "Remove", a, o.err, o.ret, v)
    /\ UNCHANGED <<now, worker>>

\* Push, lines 179-186: Stringify, then mu.Lock().  (A list of MaxLen items
\* is not pushed onto.)
CallPush(req, t, k, item) ==
    LET a == [NoArg EXCEPT !.req = req, !.key = k, !.val = item, !.stringValue = Stringify(item).s] IN
    /\ pc[t] = "idle"
    /\ IF Stringify(item).err
       THEN /\ Return(t, "Push", a, ErrMarshalFailed, "", ZeroValue)
            /\ UNCHANGED <<data, now, mu, worker, hist>>
       ELSE /\ Len(data[k].List) < MaxLen
            /\ Lock(t)
            /\ Enter(t, "Push", a)
            /\ UNCHANGED <<data, now, worker, hist>>

\* Push called by the program that holds the store.
Push(t, k, item) == CallPush(NoRequest, t, k, item)

\* Push, lines 188-205, and the deferred mu.Unlock().
PushCS(t) ==
    LET a == arg[t]
        v == data[a.key]
        o == PushEntry(v, a.stringValue, now) IN
    /\ pc[t] = "Push"
    /\ data' = [data EXCEPT ![a.key] = o.v]
    /\ hist' = IF o.err = Nil
                THEN [hist EXCEPT ![a.key] =
                         [NoHist EXCEPT !.items = <<a.val>> \o hist[a.key].items]]
                ELSE hist
    /\ Unlock(t)
    /\ Return(t, "Push", a, o.err, o.ret, v)
    /\ UNCHANGED <<now, worker>>

\* Pop, lines 209-211: mu.Lock().
CallPop(req, t, k) ==
    /\ pc[t] = "idle"
    /\ Lock(t)
    /\ Enter(t, "Pop", [NoArg EXCEPT !.req = req, !.key = k])
    /\ UNCHANGED <<data, now, worker, hist>>

\* Pop called by the program that holds the store.
Pop(t, k) == CallPop(NoRequest, t, k)

\* Pop, lines 213-235, and the deferred mu.Unlock().
PopCS(t) ==
    LET a == arg[t]
        v == data[a.key]
        o == PopEntry(v, now) IN
    /\ pc[t] = "Pop"
    /\ data' = [data EXCEPT ![a.key] = o.v]
    /\ hist' = IF o.err = Nil /\ hist[a.key].items # <<>>
                THEN [hist EXCEPT ![a.key].items = Tail(@)]
                ELSE hist
    /\ Unlock(t)
    /\ Return(t, "Pop", a, o.err, o.ret, v)
    /\ UNCHANGED <<now, worker>>

----------------------------------------------------------------------------
\* A worker goroutine, lines 267-269: the select takes the tick of the
\* ticker (whether or not ctx.Done() is ready too), then mu.Lock() and the
\* start of the range over s.data.
SweepLock(w) ==
    /\ wpc[w] = "wait"
    /\ Lock(w)
    /\ wpc' = [wpc EXCEPT ![w] = "scan"]
    /\ wrem' = [wrem EXCEPT ![w] = {k \in Keys : data[k].ok}]
    /\ resp' = NoResp
    /\ UNCHANGED <<data, now, pc, arg, ttlCtx, cancelled, wctx, wreq, hist>>

\* A mutant of SweepVisit: the range loop does not look at ctx.Done().
SweepVisitNoDone(w, k) ==
    /\ wpc[w] = "scan"
    /\ k \in wrem[w]
    /\ resp' = NoResp
    /\ wrem' = [wrem EXCEPT ![w] = @ \ {k}]
    /\ data' = [data EXCEPT ![k] = SweepEntry(data[k], now)]
    /\ UNCHANGED <<now, mu, pc, arg, ttlCtx, cancelled, wpc, wctx, wreq, hist>>

\* Lines 269-278: one iteration of the range loop, in the map's (arbitrary)
\* order: on ctx.Done() mu.Unlock() and the goroutine returns, otherwise the
\* entry is deleted if it has expired.
SweepVisit(w, k) ==
    /\ wpc[w] = "scan"
    /\ k \in wrem[w]
    /\ resp' = NoResp
    /\ IF wctx[w] \in cancelled
       THEN /\ Unlock(w)
            /\ wpc' = [wpc EXCEPT ![w] = "none"]
            /\ wctx' = [wctx EXCEPT ![w] = 0]
            /\ wrem' = [wrem EXCEPT ![w] = {}]
            /\ cancelled' = Held(cancelled, wpc', wctx')
            /\ wreq' = wreq \ {w}
            /\ UNCHANGED <<data, now, pc, arg, ttlCtx, hist>>
       ELSE /\ wrem' = [wrem EXCEPT ![w] = @ \ {k}]
            /\ data' = [data EXCEPT ![k] = SweepEntry(data[k], now)]
            /\ UNCHANGED <<now, mu, pc, arg, ttlCtx, cancelled, wpc, wctx, wreq, hist>>

\* Line 280: the range loop is over, mu.Unlock().
SweepUnlock(w) ==
    /\ wpc[w] = "scan"
    /\ wrem[w] = {}
    /\ Unlock(w)
    /\ wpc' = [wpc EXCEPT ![w] = "wait"]
    /\ wreq' = wreq \ {w}
    /\ resp' = NoResp
    /\ UNCHANGED <<data, now, pc, arg, ttlCtx, cancelled, wctx, wrem, hist>>

\* Lines 281-283: in the select ctx.Done() is ready and taken, the goroutine
\* returns.
WorkerExit(w) ==
    /\ wpc[w] = "wait"
    /\ wctx[w] \in cancelled
    /\ wpc' = [wpc EXCEPT ![w] = "none"]
    /\ wctx' = [wctx EXCEPT ![w] = 0]
    /\ cancelled' = Held(cancelled, wpc', wctx')
    /\ resp' = NoResp
    /\ UNCHANGED <<data, now, mu, pc, arg, ttlCtx, wrem, wreq, hist>>

----------------------------------------------------------------------------
\* The token a new context.WithCancel gives: one nobody holds.
NewToken ==
    CHOOSE c \in Tokens :
        /\ c # ttlCtx /\ \A w \in Workers : wpc[w] # "none" => wctx[w] # c
        /\ \A d \in Tokens :
              (d # ttlCtx /\ \A w \in Workers : wpc[w] # "none" => wctx[w] # d)
                  => c <= d

\* The slot of the next goroutine, "none" if all are taken.
FreeWorker ==
    LET free == {i \in 1..Len(WorkerOrder) : wpc[WorkerOrder[i]] = "none"} IN
    IF free = {} THEN "none"
    ELSE WorkerOrder[CHOOSE i \in free : \A j \in free : i <= j]

\* StartTTLWorker, line 43: the call; the caller goes on to wait for s.mu.
StartTTLWorker(t) ==
    /\ pc[t] = "idle"
    /\ Enter(t, "StartL", NoArg)
    /\ wreq' = wreq \cup {w \in Workers : wpc[w] = "scan"}
    /\ UNCHANGED <<data, now, mu, ttlCtx, cancelled, wpc, wctx, wrem, hist>>

\* StartTTLWorker, line 44: mu.Lock().
StartLock(t) ==
    /\ pc[t] = "StartL"
    /\ Lock(t)
    /\ Enter(t, "Start", NoArg)
    /\ UNCHANGED <<data, now, worker, hist>>

\* StartTTLWorker, lines 45-52: the current token is cancelled, a new one is
\* made current, mu.Unlock().
StartCS(t) ==
    /\ pc[t] = "Start"
    /\ ttlCtx' = NewToken
    /\ cancelled' = Held(IF ttlCtx # 0 THEN cancelled \cup {ttlCtx} ELSE cancelled,
                         wpc, wctx)
    /\ Unlock(t)
    /\ Enter(t, "DoStart", [NoArg EXCEPT !.old = ttlCtx])
    /\ UNCHANGED <<data, now, wpc, wctx, wrem, wreq, hist>>

\* doStartTTLWorker, line 254: mu.RLock().
DoStartRLock(t) ==
    /\ pc[t] = "DoStart"
    /\ RLock(t)
    /\ Enter(t, "DoStartR", arg[t])
    /\ UNCHANGED <<data, now, worker, hist>>

\* A mutant of DoStartTTLWorker: no goroutine is started while another one
\* has not returned yet.
DoStartTTLWorkerUnlessOne(t) ==
    /\ pc[t] = "DoStartR"
    /\ RUnlock(t)
    /\ IF ttlCtx = 0 \/ \E w \in Workers : wpc[w] # "none"
       THEN UNCHANGED <<wpc, wctx>>
       ELSE /\ wpc' = [wpc EXCEPT ![FreeWorker] = "wait"]
            /\ wctx' = [wctx EXCEPT ![FreeWorker] = ttlCtx]
    /\ Return(t, "Start", arg[t], Nil, "", ZeroValue)
    /\ UNCHANGED <<data, now, ttlCtx, cancelled, wrem, wreq, hist>>

\* doStartTTLWorker, lines 255-286: ctx := s.ttlCtx, mu.RUnlock(); with a nil
\* ctx it returns, otherwise it starts a goroutine on ctx and returns.
DoStartTTLWorker(t) ==
    /\ pc[t] = "DoStartR"
    /\ RUnlock(t)
    /\ IF ttlCtx = 0
       THEN UNCHANGED <<wpc, wctx>>
       ELSE /\ FreeWorker # "none"
            /\ wpc' = [wpc EXCEPT ![FreeWorker] = "wait"]
            /\ wctx' = [wctx EXCEPT ![FreeWorker] = ttlCtx]
    /\ Return(t, "Start", arg[t], Nil, "", ZeroValue)
    /\ UNCHANGED <<data, now, ttlCtx, cancelled, wrem, wreq, hist>>

\* StopTTLWorker, line 57: the call; the caller goes on to wait for s.mu.
StopTTLWorker(t) ==
    /\ pc[t] = "idle"
    /\ Enter(t, "StopL", NoArg)
    /\ wreq' = wreq \cup {w \in Workers : wpc[w] = "scan"}
    /\ UNCHANGED <<data, now, mu, ttlCtx, cancelled, wpc, wctx, wrem, hist>>

\* StopTTLWorker, line 58: mu.Lock().
StopLock(t) ==
    /\ pc[t] = "StopL"
    /\ Lock(t)
    /\ Enter(t, "Stop", NoArg)
    /\ UNCHANGED <<data, now, worker, hist>>

\* A mutant of StopCS: s.ttlCancel is called without the test for nil, which
\* panics when the worker is stopped already.
StopCSNoNilTest(t) ==
    /\ pc[t] = "Stop"
    /\ ttlCtx' = 0
    /\ cancelled' = Held(IF ttlCtx # 0 THEN cancelled \cup {ttlCtx} ELSE cancelled,
                         wpc, wctx)
    /\ Unlock(t)
    /\ Return(t, "Stop", [NoArg EXCEPT !.old = ttlCtx],
              IF ttlCtx # 0 THEN Nil ELSE "panic", "", ZeroValue)
    /\ UNCHANGED <<data, now, wpc, wctx, wrem, wreq, hist>>

\* A mutant of StopCS: the token is dropped without being cancelled.
StopCSNoCancel(t) ==
    /\ pc[t] = "Stop"
    /\ ttlCtx' = 0
    /\ cancelled' = Held(cancelled, wpc, wctx)
    /\ Unlock(t)
    /\ Return(t, "Stop", [NoArg EXCEPT !.old = ttlCtx], Nil, "", ZeroValue)
    /\ UNCHANGED <<data, now, wpc, wctx, wrem, wreq, hist>>

\* StopTTLWorker, lines 59-65: the current token, if there is one, is
\* cancelled and s.ttlCtx and s.ttlCancel become nil; the deferred mu.Unlock().
StopCS(t) ==
    /\ pc[t] = "Stop"
    /\ ttlCtx' = 0
    /\ cancelled' = Held(IF ttlCtx # 0 THEN cancelled \cup {ttlCtx} ELSE cancelled,
                         wpc, wctx)
    /\ Unlock(t)
    /\ Return(t, "Stop", [NoArg EXCEPT !.old = ttlCtx], Nil, "", ZeroValue)
    /\ UNCHANGED <<data, now, wpc, wctx, wrem, wreq, hist>>

----------------------------------------------------------------------------
\* The steps of caller t, calling with keys of K.
Caller(t, K) ==
    \/ \E k \in K, val \in Inputs, ttlSeconds \in TTLs : Set(t, k, val, ttlSeconds)
    \/ SetCS(t)
    \/ \E k \in K : Get(t, k)
    \/ GetRead(t)
    \/ GetLock(t)
    \/ GetCS(t)
    \/ \E k \in K, val \in Inputs : Update(t, k, val)
    \/ UpdateCS(t)
    \/ \E k \in K : Remove(t, k)
    \/ RemoveCS(t)
    \/ \E k \in K, item \in Inputs : Push(t, k, item)
    \/ PushCS(t)
    \/ \E k \in K : Pop(t, k)
    \/ PopCS(t)

\* The steps of the TTL worker.
Sweep ==
    \/ \E w \in Workers : SweepLock(w)
    \/ \E w \in Workers, k \in Keys : SweepVisit(w, k)
    \/ \E w \in Workers : SweepUnlock(w)

\* Concurrent callers on one key, the worker and the clock.
Next ==
    \/ Tick
    \/ \E t \in Threads : Caller(t, {"k1"})
    \/ Sweep

Spec == Init /\ [][Next]_vars

\* The steps caller t takes while it holds s.mu: a caller that has the lock
\* runs on to its return.
Locked(t) ==
    \/ SetCS(t)
    \/ GetRead(t)
    \/ GetCS(t)
    \/ UpdateCS(t)
    \/ RemoveCS(t)
    \/ PushCS(t)
    \/ PopCS(t)

\* Scheduling: the ticker keeps ticking and sync.RWMutex lets no waiter starve
\* (a goroutine that waits in mu.Lock() gets the lock), so worker w takes the
\* lock again and again, and it runs its range loop to the end.
FairWorker(w) ==
    /\ SF_vars(SweepLock(w))
    /\ WF_vars(\E k \in Keys : SweepVisit(w, k))
    /\ WF_vars(SweepUnlock(w))

FairSpec ==
    /\ Spec
    /\ \A t \in Threads : WF_vars(Locked(t))
    /\ FairWorker(WorkerId)

\* The steps of caller t that stops the worker.
Stopper(t) ==
    \/ StopTTLWorker(t)
    \/ StopLock(t)
    \/ StopCS(t)

\* The steps of caller t that starts the worker.
Starter(t) ==
    \/ StartTTLWorker(t)
    \/ StartLock(t)
    \/ StartCS(t)
    \/ DoStartRLock(t)
    \/ DoStartTTLWorker(t)

\* One caller on one key; it and a second caller may stop the worker.
NextStop ==
    \/ Tick
    \/ Caller("t1", {"k1"})
    \/ \E t \in Threads : Stopper(t)
    \/ Sweep
    \/ \E w \in Workers : WorkerExit(w)

SpecStop == Init /\ [][NextStop]_vars

\* One caller that sets expiring entries on one key and stops and starts the
\* worker again.
NextRestart ==
    \/ Tick
    \/ Set("t1", "k1", StrVal("a"), 1)
    \/ SetCS("t1")
    \/ Stopper("t1")
    \/ Starter("t1")
    \/ Sweep
    \/ \E w \in Workers : WorkerExit(w)

SpecRestart == Init /\ [][NextRestart]_vars

\* As FairSpec; a goroutine that finds ctx.Done() ready while it waits
\* returns, and the caller goes on through StartTTLWorker and StopTTLWorker.
FairSpecRestart ==
    /\ SpecRestart
    /\ WF_vars(Locked("t1"))
    /\ WF_vars(Stopper("t1") /\ pc["t1"] # "idle")
    /\ WF_vars(Starter("t1") /\ pc["t1"] # "idle")
    /\ \A w \in Workers : FairWorker(w)

\* Concurrent callers that start and stop the worker; one of them sets
\* expiring entries on one key.
NextWorker ==
    \/ Tick
    \/ Set("t1", "k1", StrVal("a"), 1)
    \/ SetCS("t1")
    \/ \E t \in Threads : Starter(t)
    \/ \E t \in Threads : Stopper(t)
    \/ Sweep
    \/ \E w \in Workers : WorkerExit(w)

SpecWorker == Init /\ [][NextWorker]_vars

\* One caller that sets expiring entries on all the keys while another stops
\* and starts the worker.
NextScan ==
    \/ Tick
    \/ \E k \in Keys : Set("t1", k, StrVal("a"), 1)
    \/ SetCS("t1")
    \/ Stopper("t2")
    \/ Starter("t2")
    \/ Sweep
    \/ \E w \in Workers : WorkerExit(w)

SpecScan == Init /\ [][NextScan]_vars

\* One caller that sets expiring entries on one key and gets them, a second
\* caller that stops and starts the worker.
NextLock ==
    \/ Tick
    \/ Set("t1", "k1", StrVal("a"), 1)
    \/ SetCS("t1")
    \/ Get("t1", "k1")
    \/ GetRead("t1")
    \/ GetLock("t1")
    \/ GetCS("t1")
    \/ Stopper("t2")
    \/ Starter("t2")
    \/ Sweep
    \/ \E w \in Workers : WorkerExit(w)

SpecLock == Init /\ [][NextLock]_vars

\* Scheduling: a goroutine that is inside an operation goes on; one that
\* waits in mu.Lock() or mu.RLock() gets the lock when it is free again and
\* again (sync.RWMutex lets no waiter starve); a worker inside its scan goes
\* on, and one whose token is cancelled returns.  Nothing makes a caller
\* call, the ticker tick or the clock advance.
FairSpecLock ==
    /\ SpecLock
    /\ WF_vars(Locked("t1"))
    /\ SF_vars(GetLock("t1"))
    /\ SF_vars(StartLock("t2") \/ StopLock("t2") \/ DoStartRLock("t2"))
    /\ WF_vars(StartCS("t2") \/ StopCS("t2") \/ DoStartTTLWorker("t2"))
    /\ \A w \in Workers :
          /\ WF_vars(\E k \in Keys : SweepVisit(w, k))
          /\ WF_vars(SweepUnlock(w))
          /\ WF_vars(WorkerExit(w))

\* One caller that sets an entry on one key, and two callers that start and
\* stop the worker.
NextLeak ==
    \/ Set("t1", "k1", StrVal("a"), 0)
    \/ SetCS("t1")
    \/ \E t \in Threads : Starter(t)
    \/ \E t \in Threads : Stopper(t)
    \/ Sweep
    \/ \E w \in Workers : WorkerExit(w)

SpecLeak == Init /\ [][NextLeak]_vars

\* Scheduling: a worker inside its scan goes on, and in the select of a
\* worker whose token is cancelled the ctx.Done() case, ready at every pass,
\* is taken in the end (select picks among the ready cases at random).
FairSpecLeak ==
    /\ SpecLeak
    /\ \A w \in Workers :
          /\ WF_vars(\E k \in Keys : SweepVisit(w, k))
          /\ WF_vars(SweepUnlock(w))
          /\ SF_vars(WorkerExit(w))

\* One caller on all the keys, the worker and the clock.
NextKeys ==
    \/ Tick
    \/ Caller("t1", Keys)
    \/ Sweep

SpecKeys == Init /\ [][NextKeys]_vars

----------------------------------------------------------------------------
(* The HTTP API: each handler checks its request, calls the store once, and  *)
(* answers from the error the call returned.  A handler that refuses its     *)
(* request answers in the step that serves it; one that calls the store      *)
(* answers in the step in which the call returns (WriteResponse in Return).  *)

\* The values and items the JSON bodies sent hold: a string.  (Whatever
\* json.Unmarshal decodes, json.Marshal encodes: the store's ErrMarshalFailed
\* does not arise from a request.)
JSONValues == {StrVal("a")}

\* The requests sent to the routes, over the keys K and the empty key.  A
\* field that the request does not have, or that its body leaves out, is the
\* zero value, as is every field of a body that does not decode.
Request(m, j, k, v, n) ==
    [h |-> "none", method |-> m, json |-> j, Key |-> k, Value |-> v, TTLSeconds |-> n,
     c |-> "none"]

\* /api/v1/keys: a SetRequest body, or one that does not decode.
SetRequests(K) ==
    {Request(m, TRUE, k, v, n) :
        m \in {"POST", "GET"}, k \in K \cup {""}, v \in JSONValues, n \in TTLs}
    \cup {Request("POST", FALSE, "", NoVal, 0)}

\* /api/v1/keys/{key}: PUT has an UpdateRequest body, or one that does not
\* decode; the other methods have no body.
KeyRequests(K) ==
    {Request(m, FALSE, k, NoVal, 0) : m \in {"GET", "PUT", "DELETE", "POST"}, k \in K \cup {""}}
    \cup {Request("PUT", TRUE, k, v, 0) : k \in K \cup {""}, v \in JSONValues}

\* /api/v1/lists/push: a PushRequest body, or one that does not decode.
PushRequests(K) ==
    {Request(m, TRUE, k, v, 0) : m \in {"POST", "GET"}, k \in K, v \in JSONValues}
    \cup {Request("POST", FALSE, "", NoVal, 0)}

\* /api/v1/lists/pop: a PopRequest body, or one that does not decode.
PopRequests(K) ==
    {Request(m, TRUE, k, NoVal, 0) : m \in {"POST", "GET"}, k \in K}
    \cup {Request("POST", FALSE, "", NoVal, 0)}

\* writeError before any call of the store: the handler returns.
Refuse(t, req, status, text) ==
    /\ resp' = [NoResp EXCEPT !.t = t, !.req = req, !.status = status,
                              !.error = <<text>>,
                              !.cerr = ClientError(req.c, HTTPResponse(status, <<text>>))]
    /\ UNCHANGED <<data, now, mu, pc, arg, worker, hist>>

\* A mutant of SetHandler: ttl_seconds is passed to the store unchecked.
SetHandlerNoTTLTest(t, r) ==
    LET req == [r EXCEPT !.h = "SetHandler"] IN
    /\ pc[t] = "idle"
    /\ IF req.method # "POST"
       THEN Refuse(t, req, StatusMethodNotAllowed, "Method not allowed")
       ELSE IF ~req.json
       THEN Refuse(t, req, StatusBadRequest, "Invalid JSON payload")
       ELSE IF req.Key = ""
       THEN Refuse(t, req, StatusBadRequest, "Key is required")
       ELSE CallSet(req, t, req.Key, req.Value, req.TTLSeconds)

\* SetHandler, POST /api/v1/keys, lines 23-48.
SetHandler(t, r) ==
    LET req == [r EXCEPT !.h = "SetHandler"] IN
    /\ pc[t] = "idle"
    /\ IF req.method # "POST"
       THEN Refuse(t, req, StatusMethodNotAllowed, "Method not allowed")
       ELSE IF ~req.json
       THEN Refuse(t, req, StatusBadRequest, "Invalid JSON payload")
       ELSE IF req.Key = ""
       THEN Refuse(t, req, StatusBadRequest, "Key is required")
       ELSE IF req.TTLSeconds <= 0
       THEN Refuse(t, req, StatusBadRequest, "TTL is required and must be greater than 0")
       ELSE CallSet(req, t, req.Key, req.Value, req.TTLSeconds)

\* GetHandler, GET /api/v1/keys/{key}, lines 58-73: Key is the rest of the path.
GetHandler(t, r) ==
    LET req == [r EXCEPT !.h = "GetHandler"] IN
    /\ pc[t] = "idle"
    /\ IF req.method # "GET"
       THEN Refuse(t, req, StatusMethodNotAllowed, "Method not allowed")
       ELSE IF req.Key = ""
       THEN Refuse(t, req, StatusBadRequest, "Key is required")
       ELSE CallGet(req, t, req.Key)

\* UpdateHandler, PUT /api/v1/keys/{key}, lines 88-109.
UpdateHandler(t, r) ==
    LET req == [r EXCEPT !.h = "UpdateHandler"] IN
    /\ pc[t] = "idle"
    /\ IF req.method # "PUT"
       THEN Refuse(t, req, StatusMethodNotAllowed, "Method not allowed")
       ELSE IF req.Key = ""
       THEN Refuse(t, req, StatusBadRequest, "Key is required")
       ELSE IF ~req.json
       THEN Refuse(t, req, StatusBadRequest, "Invalid JSON payload")
       ELSE CallUpdate(req, t, req.Key, req.Value)

\* RemoveHandler, DELETE /api/v1/keys/{key}, lines 123-138.
RemoveHandler(t, r) ==
    LET req == [r EXCEPT !.h = "RemoveHandler"] IN
    /\ pc[t] = "idle"
    /\ IF req.method # "DELETE"
       THEN Refuse(t, req, StatusMethodNotAllowed, "Method not allowed")
       ELSE IF req.Key = ""
       THEN Refuse(t, req, StatusBadRequest, "Key is required")
       ELSE CallRemove(req, t, req.Key)

\* keyOperation, lines 224-235: the route /api/v1/keys/.
keyOperation(t, r) ==
    CASE r.method = "GET" -> GetHandler(t, r)
      [] r.method = "PUT" -> UpdateHandler(t, r)
      [] r.method = "DELETE" -> RemoveHandler(t, r)
      [] OTHER -> /\ pc[t] = "idle"
                  /\ Refuse(t, [r EXCEPT !.h = "keyOperation"],
                            StatusMethodNotAllowed, "Method not allowed")

\* PushHandler, POST /api/v1/lists/push, lines 152-167: the key is not looked
\* at.
PushHandler(t, r) ==
    LET req == [r EXCEPT !.h = "PushHandler"] IN
    /\ pc[t] = "idle"
    /\ IF req.method # "POST"
       THEN Refuse(t, req, StatusMethodNotAllowed, "Method not allowed")
       ELSE IF ~req.json
       THEN Refuse(t, req, StatusBadRequest, "Invalid JSON payload")
       ELSE CallPush(req, t, req.Key, req.Value)

\* PopHandler, POST /api/v1/lists/pop, lines 177-191.
PopHandler(t, r) ==
    LET req == [r EXCEPT !.h = "PopHandler"] IN
    /\ pc[t] = "idle"
    /\ IF req.method # "POST"
       THEN Refuse(t, req, StatusMethodNotAllowed, "Method not allowed")
       ELSE IF ~req.json
       THEN Refuse(t, req, StatusBadRequest, "Invalid JSON payload")
       ELSE CallPop(req, t, req.Key)

\* The server: requests to the four routes of SetupRoutes (lines 210-221),
\* each served by goroutine t, on the keys K.
Server(t, K) ==
    \/ \E r \in SetRequests(K) : SetHandler(t, r)
    \/ \E r \in KeyRequests(K) : keyOperation(t, r)
    \/ \E r \in PushRequests(K) : PushHandler(t, r)
    \/ \E r \in PopRequests(K) : PopHandler(t, r)
    \/ SetCS(t)
    \/ GetRead(t)
    \/ GetLock(t)
    \/ GetCS(t)
    \/ UpdateCS(t)
    \/ RemoveCS(t)
    \/ PushCS(t)
    \/ PopCS(t)

\* A store that only the HTTP server calls, with its worker and the clock.
NextAPI ==
    \/ Tick
    \/ \E t \in Threads : Server(t, {"k1"})
    \/ Sweep

SpecAPI == Init /\ [][NextAPI]_vars

----------------------------------------------------------------------------
(* pkg/client: each method builds its request, sends it with doRequest, and  *)
(* returns the error doRequest makes of the answer.  The client waits for    *)
(* the answer: the step in which the handler answers is the step in which    *)
(* the client method returns (ClientError in Return and Refuse).             *)

\* The request a client method sends.
Sent(c, m, j, k, v, n) == [Request(m, j, k, v, n) EXCEPT !.c = c]

\* mockServer of client_test.go, lines 164-176, on /api/v1/keys: a server
\* that accepts every POST, whatever its ttl_seconds.
MockSetHandler(t, r) ==
    LET req == [r EXCEPT !.h = "mockServer"] IN
    /\ pc[t] = "idle"
    /\ resp' = [NoResp EXCEPT !.t = t, !.req = req, !.status = StatusOK,
                              !.cerr = ClientError(req.c, HTTPResponse(StatusOK, <<>>))]
    /\ UNCHANGED <<data, now, mu, pc, arg, worker, hist>>

\* Client.Set, client.go lines 96-109, talking to the handler or to the mock
\* server.
ClientSet(t, server, key, value, ttlSeconds) ==
    LET req == Sent("Set", "POST", TRUE, key, value, ttlSeconds) IN
    /\ pc[t] = "idle"
    /\ IF ttlSeconds < 0
       THEN /\ resp' = [NoResp EXCEPT !.t = t, !.req = req,
                           !.cerr = <<"TTL must be >= 0 (0 = no expiration)">>]
            /\ UNCHANGED <<data, now, mu, pc, arg, worker, hist>>
       ELSE IF server = "mockServer" THEN MockSetHandler(t, req)
       ELSE SetHandler(t, req)

\* Client.Get, client.go lines 125-127: the value is read from the answer.
ClientGet(t, key) == keyOperation(t, Sent("Get", "GET", FALSE, key, NoVal, 0))

\* Client.Update, client.go lines 159-166.
ClientUpdate(t, key, value) == keyOperation(t, Sent("Update", "PUT", TRUE, key, value, 0))

\* Client.Remove, client.go lines 178-181.
ClientRemove(t, key) == keyOperation(t, Sent("Remove", "DELETE", FALSE, key, NoVal, 0))

\* Client.Push, client.go lines 200-208.
ClientPush(t, key, item) == PushHandler(t, Sent("Push", "POST", TRUE, key, item, 0))

\* Client.Pop, client.go lines 229-237: the value is read from the answer.
ClientPop(t, key) == PopHandler(t, Sent("Pop", "POST", TRUE, key, NoVal, 0))

\* A program that uses the store through the client, on the keys K.
ClientCaller(t, K) ==
    \/ \E server \in {"Handler", "mockServer"}, k \in K, v \in JSONValues, n \in TTLs :
            ClientSet(t, server, k, v, n)
    \/ \E k \in K : ClientGet(t, k)
    \/ \E k \in K, v \in JSONValues : ClientUpdate(t, k, v)
    \/ \E k \in K : ClientRemove(t, k)
    \/ \E k \in K, v \in JSONValues : ClientPush(t, k, v)
    \/ \E k \in K : ClientPop(t, k)
    \/ SetCS(t)
    \/ GetRead(t)
    \/ GetLock(t)
    \/ GetCS(t)
    \/ UpdateCS(t)
    \/ RemoveCS(t)
    \/ PushCS(t)
    \/ PopCS(t)

\* A store that only clients reach, with its worker and the clock.
NextClient ==
    \/ Tick
    \/ \E t \in Threads : ClientCaller(t, {"k1"})
    \/ Sweep

SpecClient == Init /\ [][NextClient]_vars

----------------------------------------------------------------------------
(* The properties checked.  In the state right after a caller returned, resp *)
(* holds its response, resp.v the slot the operation found at its key, and   *)
(* now the instant at which it read the clock; any other step clears resp.   *)

\* expiresAt is set and lies in the past at instant t
InThePast(v, t) == v.ok /\ v.TTL # 0 /\ v.TTL < t

\* The serializer of the specification: a string as it is, anything else in
\* its compact JSON encoding.
Serialize(val) == IF val.type = "string" THEN val.str ELSE Itoa(val.num)

Serializable(val) == val.type \in {"string", "int"}

\* C1: no Get returns a value, and no Pop an item, from an entry whose
\* expiresAt is non-zero and earlier than the time the operation read, under
\* any interleaving of the callers and the worker.
C1_NoExpiredRead ==
    (resp.op \in {"Get", "Pop"} /\ resp.err = Nil) =>
        /\ resp.v.ok
        /\ ~InThePast(resp.v, now)
        /\ resp.ret = IF resp.op = "Get" THEN resp.v.Val ELSE Head(resp.v.List)

\* A Get came upon an entry whose expiresAt had passed, while the other
\* caller was in the middle of an operation.
C1_Witness ==
    /\ resp.op = "Get"
    /\ InThePast(resp.v, now)
    /\ resp.err = ErrKeyNotFound
    /\ \E t \in Threads : pc[t] # "idle"

LazyOps == {"Get", "Update", "Pop"}

\* C2 as stated: when the entry at a key has its expiresAt in the past, every
\* Get, Update or Pop that returns for that key fails with KeyNotFound and
\* leaves the key absent.
C2_AnyAccessFailsNotFound ==
    [][\A k \in Keys :
          (InThePast(data[k], now) /\ resp'.op \in LazyOps /\ resp'.key = k) =>
              (resp'.err = ErrKeyNotFound /\ ~data'[k].ok)]_vars

\* C2, amended: when the entry at a key has its expiresAt in the past, a Get, a
\* Pop or an Update with a serializable value that returns for that key fails
\* with KeyNotFound and deletes the entry; on an absent key they fail with
\* KeyNotFound and the key stays absent; and an absent key becomes present
\* only by a successful Set or Push on it (no resurrection).  An Update with an
\* unserializable value fails with SerializationFailure and deletes nothing.
C2_LazyExpiration ==
    [][\A k \in Keys :
          /\ (/\ InThePast(data[k], now) \/ ~data[k].ok
              /\ resp'.op \in LazyOps /\ resp'.key = k
              /\ resp'.op = "Update" => Serializable(resp'.val))
                 => (resp'.err = ErrKeyNotFound /\ ~data'[k].ok)
          /\ (resp'.op = "Update" /\ resp'.key = k /\ ~Serializable(resp'.val))
                 => (resp'.err = ErrMarshalFailed /\ data'[k] = data[k])
          /\ (~data[k].ok /\ data'[k].ok)
                 => (resp'.op \in {"Set", "Push"} /\ resp'.key = k /\ resp'.err = Nil)]_vars

\* A Pop found an entry whose expiresAt had passed, failed with KeyNotFound
\* and left the key absent.
C2_Witness ==
    /\ resp.op = "Pop"
    /\ InThePast(resp.v, now)
    /\ resp.err = ErrKeyNotFound
    /\ ~data[resp.key].ok

\* C3: a Get, Update or Pop that finds an entry with a non-zero expiresAt at
\* an instant at or after it (now >= expiresAt) fails with KeyNotFound.
C3_ExpiredAtOrAfter ==
    (resp.op \in LazyOps /\ resp.v.ok /\ resp.v.TTL # 0 /\ now >= resp.v.TTL) =>
        resp.err = ErrKeyNotFound

\* C4: while the scalar a Set(key, v, t), t > 0, wrote at time T has not been
\* removed or replaced by a list, a Get strictly before T + t returns the
\* serialized value last written and a Get strictly after T + t fails with
\* KeyNotFound, whatever the worker did in between.
C4_TTLMonotonicity ==
    \A k \in Keys :
        (resp.op = "Get" /\ resp.key = k /\ hist[k].set /\ hist[k].exp # 0) =>
            /\ now < hist[k].exp => (resp.err = Nil /\ resp.ret = Serialize(hist[k].val))
            /\ now > hist[k].exp => resp.err = ErrKeyNotFound

\* A Get strictly after T + t failed with KeyNotFound.
C4_Witness ==
    /\ resp.op = "Get"
    /\ hist[resp.key].set
    /\ hist[resp.key].exp # 0
    /\ now > hist[resp.key].exp
    /\ resp.err = ErrKeyNotFound

\* C5: from a successful Set(key, v, 0) until a Remove or a Push on the key
\* (or a later Set with a TTL), the entry is in the map with no expiration and
\* the value last written, and every Get of the key returns that value.
C5_ZeroTTLImmortal ==
    \A k \in Keys :
        (hist[k].set /\ hist[k].exp = 0) =>
            /\ data[k] = [ok |-> TRUE, Val |-> Serialize(hist[k].val), TTL |-> 0,
                          IsList |-> FALSE, List |-> <<>>]
            /\ (resp.op = "Get" /\ resp.key = k) =>
                   (resp.err = Nil /\ resp.ret = Serialize(hist[k].val))

\* The worker's scan has visited, at a later instant, a key set with
\* ttlSeconds = 0, and the entry is still there.
C5_Witness ==
    /\ hist["k1"].set
    /\ hist["k1"].exp = 0
    /\ now = MaxTime
    /\ wpc[WorkerId] = "scan"
    /\ "k1" \notin wrem[WorkerId]
    /\ data["k1"].ok

\* C6: a Get that returns a value returns exactly the serialization of the
\* argument of the last successful Set or Update on the key: a string
\* identically (not quoted), an int as its decimal text.
C6_RoundTrip ==
    (resp.op = "Get" /\ resp.err = Nil) =>
        /\ hist[resp.key].set
        /\ resp.ret = Serialize(hist[resp.key].val)
        /\ hist[resp.key].val.type = "string" => resp.ret = hist[resp.key].val.str

\* A Get returned the string "a" of an entry that was set with a TTL.
C6_Witness ==
    /\ resp.op = "Get"
    /\ resp.err = Nil
    /\ resp.ret = "a"
    /\ hist[resp.key].val = StrVal("a")
    /\ hist[resp.key].exp # 0

\* C7: right after a successful Set(key, v, ttl) the entry at key is a Scalar
\* holding Serialize(v), with expiresAt = now + ttl for ttl > 0 and none for
\* ttl = 0, and an empty list, whatever was at the key before.
C7_SetReplaces ==
    (resp.op = "Set" /\ resp.err = Nil) =>
        data[resp.key] = [ok |-> TRUE, Val |-> Serialize(resp.val),
                          TTL |-> IF resp.ttl > 0 THEN now + resp.ttl ELSE 0,
                          IsList |-> FALSE, List |-> <<>>]

\* A Set replaced a non-empty list.
C7_Witness ==
    /\ resp.op = "Set"
    /\ resp.err = Nil
    /\ resp.v.ok
    /\ resp.v.IsList
    /\ resp.v.List # <<>>

\* C8: a Set with ttlSeconds < 0 returns InvalidTTL and changes no entry of
\* the map.
C8_InvalidTTL ==
    [][(resp'.op = "Set" /\ resp'.ttl < 0) =>
           (resp'.err = ErrInvalidTTL /\ data' = data)]_vars

\* A Set with a negative TTL failed on a key that holds an entry, while the
\* other key holds one too.
C8_Witness ==
    /\ resp.op = "Set"
    /\ resp.ttl < 0
    /\ resp.err = ErrInvalidTTL
    /\ \A k \in Keys : data[k].ok

\* C9: a successful Update changes the value of the entry and nothing else,
\* and a scalar entry always carries the expiresAt that the last successful
\* Set on its key fixed, after any number of Updates.
C9_UpdatePreservesTTL ==
    /\ (resp.op = "Update" /\ resp.err = Nil) =>
           data[resp.key] = [resp.v EXCEPT !.Val = Serialize(resp.val)]
    /\ \A k \in Keys :
           (hist[k].set /\ data[k].ok) => data[k].TTL = hist[k].exp

\* An Update changed the value of an entry that has an expiration, at an
\* instant after the Set.
C9_Witness ==
    /\ resp.op = "Update"
    /\ resp.err = Nil
    /\ resp.v.TTL # 0
    /\ resp.v.Val # data[resp.key].Val
    /\ now > 1

\* C10 as stated: an Update that returns for a key that is absent, or whose
\* entry has its expiresAt in the past, fails with KeyNotFound and leaves the
\* key absent.
C10_AnyUpdateFailsNotFound ==
    [][\A k \in Keys :
          (resp'.op = "Update" /\ resp'.key = k
           /\ (~data[k].ok \/ InThePast(data[k], now))) =>
              (resp'.err = ErrKeyNotFound /\ ~data'[k].ok)]_vars

\* C10, amended: an Update with a serializable value on a key that is absent,
\* or whose entry has its expiresAt in the past, fails with KeyNotFound and
\* leaves the key absent, and so does a Get on an absent key; an Update with
\* an unserializable value fails with SerializationFailure and leaves the
\* map as it is.
C10_UpdateMissing ==
    [][\A k \in Keys :
          /\ (resp'.op = "Update" /\ resp'.key = k /\ Serializable(resp'.val)
              /\ (~data[k].ok \/ InThePast(data[k], now)))
                 => (resp'.err = ErrKeyNotFound /\ ~data'[k].ok)
          /\ (resp'.op = "Update" /\ resp'.key = k /\ ~Serializable(resp'.val))
                 => (resp'.err = ErrMarshalFailed /\ data' = data)
          /\ (resp'.op = "Get" /\ resp'.key = k /\ ~data[k].ok)
                 => (resp'.err = ErrKeyNotFound /\ ~data'[k].ok)]_vars

\* An Update found an entry whose expiresAt had passed, failed with
\* KeyNotFound and left the key absent.
C10_Witness ==
    /\ resp.op = "Update"
    /\ InThePast(resp.v, now)
    /\ resp.err = ErrKeyNotFound
    /\ ~data[resp.key].ok

----------------------------------------------------------------------------
\* the entry is there and its expiresAt, if set, is not in the past at t
Present(v, t) == v.ok /\ ~InThePast(v, t)

\* C11 as stated: on every key that holds a live List entry, every Get and
\* every Update fails with TypeMismatch, on every key that holds a live Scalar
\* entry, every Push and every Pop fails with TypeMismatch, and the entry is
\* left exactly as it was.
C11_AnyCallTypeMismatch ==
    [][\A k \in Keys :
          ((/\ resp'.key = k
            /\ Present(data[k], now)
            /\ \/ data[k].IsList /\ resp'.op \in {"Get", "Update"}
               \/ ~data[k].IsList /\ resp'.op \in {"Push", "Pop"})
           => (resp'.err = ErrTypeMismatch /\ data'[k] = data[k]))]_vars

\* C11, amended: on a live List entry Get, and Update with a serializable
\* value, fail with TypeMismatch; on a live Scalar entry Pop, and Push with a
\* serializable item, fail with TypeMismatch; Update and Push with an
\* unserializable argument fail with SerializationFailure; in every one of
\* these cases the entry is left exactly as it was.
C11_TypeMismatch ==
    [][\A k \in Keys :
          ((/\ resp'.key = k
            /\ Present(data[k], now)
            /\ \/ data[k].IsList /\ resp'.op \in {"Get", "Update"}
               \/ ~data[k].IsList /\ resp'.op \in {"Push", "Pop"})
           => (/\ data'[k] = data[k]
               /\ resp'.err = IF resp'.op \in {"Update", "Push"}
                                  /\ ~Serializable(resp'.val)
                               THEN ErrMarshalFailed
                               ELSE ErrTypeMismatch))]_vars

\* A Push of a serializable item has just failed with TypeMismatch on a Scalar
\* entry that carries an expiresAt not yet passed, and the entry is unchanged.
C11_Witness ==
    /\ resp.op = "Push" /\ resp.err = ErrTypeMismatch
    /\ Serializable(resp.val)
    /\ resp.v.ok /\ ~resp.v.IsList /\ resp.v.TTL > now
    /\ data[resp.key] = resp.v

----------------------------------------------------------------------------
\* the serialized forms of a sequence of arguments
SerializeAll(vals) == [i \in 1..Len(vals) |-> Serialize(vals[i])]

\* C12: a list is a LIFO stack.  Every list in the map holds, front first, the
\* serialized pushed items no Pop has returned yet, the latest pushed first; a
\* successful Push puts its item at index 0 in front of the items the list
\* held; a Pop on a list that still holds items succeeds, returns the item at
\* index 0 (the latest pushed and not yet popped) and removes it; a Pop on a
\* list whose pushed items have all been popped fails with EmptyList.
C12_LIFO ==
    [][LET k == resp'.key IN
       /\ \A q \in Keys :
             (data'[q].ok /\ data'[q].IsList)
                 => data'[q].List = SerializeAll(hist'[q].items)
       /\ (resp'.op = "Push" /\ resp'.err = Nil)
             => data'[k].List =
                    <<Serialize(resp'.val)>>
                        \o (IF Present(data[k], now) /\ data[k].IsList
                            THEN data[k].List ELSE <<>>)
       /\ (resp'.op = "Pop" /\ data[k].ok /\ data[k].IsList)
             => IF hist[k].items = <<>>
                THEN resp'.err = ErrEmptyList /\ data' = data
                ELSE /\ resp'.err = Nil
                     /\ resp'.ret = Serialize(Head(hist[k].items))
                     /\ resp'.ret = data[k].List[1]
                     /\ data'[k].List = Tail(data[k].List)]_vars

\* A Pop has just returned the later pushed of two different items of a list
\* and left the earlier one at the front.
C12_Witness ==
    /\ resp.op = "Pop" /\ resp.err = Nil
    /\ Len(resp.v.List) = 2 /\ resp.v.List[1] # resp.v.List[2]
    /\ resp.ret = resp.v.List[1]
    /\ data[resp.key].List = <<resp.v.List[2]>>
    /\ Len(hist[resp.key].items) = 1

----------------------------------------------------------------------------
\* the entry a Push creates: a List of the one item, without expiry
NewList(val) ==
    [ok |-> TRUE, Val |-> "", TTL |-> 0, IsList |-> TRUE, List |-> <<Serialize(val)>>]

\* C13 as stated: every Push on a key that is absent, or present with its
\* expiresAt in the past (whatever its kind), succeeds and leaves at the key a
\* List entry that holds exactly the pushed item.
C13_AnyPushRecreates ==
    [][\A k \in Keys :
          ((resp'.op = "Push" /\ resp'.key = k
            /\ (~data[k].ok \/ InThePast(data[k], now)))
           => (resp'.err = Nil /\ data'[k] = NewList(resp'.val)))]_vars

\* C13, amended: a Push of a serializable item on a key that is absent, or
\* present with its expiresAt in the past (whatever its kind), succeeds and, in
\* the one step that holds the lock, replaces the entry by a List entry that
\* holds exactly the pushed item and nothing of the expired entry (no value,
\* no item, no expiresAt); a Push of an unserializable item fails
\* with SerializationFailure and leaves the map as it was.
C13_PushRecreates ==
    [][\A k \in Keys :
          ((resp'.op = "Push" /\ resp'.key = k
            /\ (~data[k].ok \/ InThePast(data[k], now)))
           => IF Serializable(resp'.val)
              THEN /\ resp'.err = Nil
                   /\ data'[k] = NewList(resp'.val)
                   /\ hist'[k] = [NoHist EXCEPT !.items = <<resp'.val>>]
              ELSE resp'.err = ErrMarshalFailed /\ data' = data)]_vars

\* A Push has just replaced a Scalar entry whose expiresAt had passed by a
\* List of its item.
C13_Witness ==
    /\ resp.op = "Push" /\ resp.err = Nil
    /\ InThePast(resp.v, now) /\ ~resp.v.IsList /\ resp.v.Val # ""
    /\ data[resp.key] = NewList(resp.val)

----------------------------------------------------------------------------
\* C14: in every reachable state every List entry has the zero expiresAt, and
\* a List entry leaves the map only by a successful Remove or Set on its key:
\* no sweep of the worker and no lazy expiration (of Get, Update, Push or Pop)
\* deletes it, however late the clock.
C14_ListsNeverExpire ==
    [][\A k \in Keys :
          /\ (data'[k].ok /\ data'[k].IsList) => data'[k].TTL = 0
          /\ (data[k].ok /\ data[k].IsList /\ ~(data'[k].ok /\ data'[k].IsList))
                => (resp'.key = k /\ resp'.op \in {"Set", "Remove"}
                    /\ resp'.err = Nil)]_vars

\* The worker's sweep has just passed over a List entry at the latest instant
\* and left it in the map.
C14_Witness ==
    /\ wpc[WorkerId] = "scan" /\ "k1" \notin wrem[WorkerId]
    /\ now = MaxTime
    /\ data["k1"].ok /\ data["k1"].IsList /\ data["k1"].List # <<>>

----------------------------------------------------------------------------
\* C15 as stated: Remove on a key that is in the map succeeds and deletes the
\* entry, Scalar or List; on a key that is not in the map every Get, Update,
\* Pop and Remove fails with KeyNotFound and changes nothing, and the key
\* stays out of the map until a successful Set or Push recreates it.
C15_AnyCallAfterRemove ==
    [][\A k \in Keys :
          /\ (resp'.op = "Remove" /\ resp'.key = k /\ data[k].ok)
                => (resp'.err = Nil /\ data' = [data EXCEPT ![k] = ZeroValue])
          /\ (resp'.op \in {"Get", "Update", "Pop", "Remove"} /\ resp'.key = k
              /\ ~data[k].ok)
                => (resp'.err = ErrKeyNotFound /\ data' = data)
          /\ (~data[k].ok /\ data'[k].ok)
                => (resp'.op \in {"Set", "Push"} /\ resp'.key = k
                    /\ resp'.err = Nil)]_vars

\* C15, amended: as C15, for Get, Pop, Remove and Update with a serializable
\* value; an Update with an unserializable value on a key that is not in the
\* map fails with SerializationFailure and changes nothing.
C15_Remove ==
    [][\A k \in Keys :
          /\ (resp'.op = "Remove" /\ resp'.key = k /\ data[k].ok)
                => (resp'.err = Nil /\ data' = [data EXCEPT ![k] = ZeroValue])
          /\ (resp'.op \in {"Get", "Update", "Pop", "Remove"} /\ resp'.key = k
              /\ ~data[k].ok)
                => (/\ data' = data
                    /\ resp'.err = IF resp'.op = "Update" /\ ~Serializable(resp'.val)
                                    THEN ErrMarshalFailed
                                    ELSE ErrKeyNotFound)
          /\ (~data[k].ok /\ data'[k].ok)
                => (resp'.op \in {"Set", "Push"} /\ resp'.key = k
                    /\ resp'.err = Nil)]_vars

\* A Remove has just deleted a List entry that held items.
C15_Witness ==
    /\ resp.op = "Remove" /\ resp.err = Nil
    /\ resp.v.ok /\ resp.v.IsList /\ resp.v.List # <<>>
    /\ ~data[resp.key].ok

----------------------------------------------------------------------------
\* C16 as stated: Remove on a key whose entry is still in the map with its
\* expiresAt in the past reports KeyNotFound, as it does on an absent key.
C16_RemoveExpiredNotFound ==
    [][\A k \in Keys :
          ((resp'.op = "Remove" /\ resp'.key = k /\ InThePast(data[k], now))
           => resp'.err = ErrKeyNotFound)]_vars

\* C16, amended: Remove on a key whose entry is still in the map with its
\* expiresAt in the past succeeds, as it does on a live entry, and deletes the
\* entry; only the key is left in the state of an absent key.
C16_RemoveExpiredSucceeds ==
    [][\A k \in Keys :
          ((resp'.op = "Remove" /\ resp'.key = k /\ InThePast(data[k], now))
           => (resp'.err = Nil /\ data' = [data EXCEPT ![k] = ZeroValue]))]_vars

\* A Remove has just returned success on an entry whose expiresAt had passed.
C16_Witness ==
    /\ resp.op = "Remove" /\ resp.err = Nil
    /\ InThePast(resp.v, now)
    /\ ~data[resp.key].ok

----------------------------------------------------------------------------
\* C17: the order of Pop's checks.  A Pop that found its key absent, or its
\* entry with expiresAt in the past, failed with KeyNotFound (an expired
\* Scalar too: KeyNotFound and the entry deleted, not TypeMismatch); one that
\* found a live Scalar failed with TypeMismatch and left it; one that found a
\* live List failed with EmptyList if and only if the list was empty.
C17_PopCheckOrder ==
    resp.op = "Pop" =>
        LET v == resp.v
            k == resp.key IN
        /\ ~v.ok => (resp.err = ErrKeyNotFound /\ ~data[k].ok)
        /\ InThePast(v, now) => (resp.err = ErrKeyNotFound /\ ~data[k].ok)
        /\ (Present(v, now) /\ ~v.IsList)
              => (resp.err = ErrTypeMismatch /\ data[k] = v)
        /\ (Present(v, now) /\ v.IsList /\ v.List = <<>>)
              => (resp.err = ErrEmptyList /\ data[k] = v)
        /\ (Present(v, now) /\ v.IsList /\ v.List # <<>>) => resp.err = Nil
        /\ resp.err = ErrEmptyList
              => (Present(v, now) /\ v.IsList /\ v.List = <<>>)

\* A Pop has just found a Scalar entry whose expiresAt had passed: it failed
\* with KeyNotFound and the entry is gone.
C17_Witness ==
    /\ resp.op = "Pop" /\ resp.err = ErrKeyNotFound
    /\ InThePast(resp.v, now) /\ ~resp.v.IsList
    /\ ~data[resp.key].ok

----------------------------------------------------------------------------
\* C18: no partial effect on failure.  An operation that fails with
\* InvalidTTL, SerializationFailure, TypeMismatch or EmptyList leaves the whole
\* map as it was; one that fails with KeyNotFound changes the map at most by
\* deleting, at its own key, the entry whose expiresAt had passed.
C18_NoPartialEffect ==
    [][/\ resp'.err \in {ErrInvalidTTL, ErrMarshalFailed, ErrTypeMismatch, ErrEmptyList}
             => data' = data
       /\ resp'.err = ErrKeyNotFound
             => \/ data' = data
                \/ /\ InThePast(data[resp'.key], now)
                   /\ data' = [data EXCEPT ![resp'.key] = ZeroValue]]_vars

\* An Update has just failed with TypeMismatch on a list of items while the
\* other key held an entry too, and the list is as the Update found it.
C18_Witness ==
    /\ resp.op = "Update" /\ resp.err = ErrTypeMismatch
    /\ resp.v.IsList /\ resp.v.List # <<>>
    /\ data[resp.key] = resp.v
    /\ \A k \in Keys : data[k].ok

----------------------------------------------------------------------------
\* C19: under every interleaving of the callers and the worker, no value is
\* phantom and no item is duplicated.  A Get on k that returns a value returns
\* the serialized argument of a successful Set or Update on k (the last one);
\* a Pop on k that returns an item returns the serialized argument of a
\* successful Push on k that no Pop has answered yet, and from then on that
\* Push is answered: the list holds one item less and is again exactly the
\* unanswered Pushes, so no Push is answered by two Pops.
C19_NoPhantomNoDuplicate ==
    [][LET k == resp'.key IN
       /\ (resp'.op = "Get" /\ resp'.err = Nil)
             => (hist[k].set /\ Serializable(hist[k].val)
                 /\ resp'.ret = Serialize(hist[k].val))
       /\ (resp'.op = "Pop" /\ resp'.err = Nil)
             => /\ hist[k].items # <<>>
                /\ \A i \in 1..Len(hist[k].items) : Serializable(hist[k].items[i])
                /\ resp'.ret = Serialize(Head(hist[k].items))
                /\ Len(data'[k].List) = Len(data[k].List) - 1
                /\ Len(hist'[k].items) = Len(hist[k].items) - 1
                /\ data'[k].List = SerializeAll(hist'[k].items)]_vars

\* Caller t2 has just popped an item of a list that held two, while caller t1
\* is in the middle of a Get, between its read lock and its write lock.
C19_Witness ==
    /\ resp.op = "Pop" /\ resp.err = Nil /\ resp.t = "t2"
    /\ Len(resp.v.List) = 2
    /\ pc["t1"] = "GetU"

----------------------------------------------------------------------------
(* The atomic key-value store: what one operation, run alone at instant t on *)
(* the slot v of its key, answers (err, ret) and leaves at the key (v).      *)
AtomicGone(v, t) == ~v.ok \/ InThePast(v, t)

AtomicSet(v, val, ttlSeconds, t) ==
    IF ttlSeconds < 0 THEN [err |-> ErrInvalidTTL, ret |-> "", v |-> v]
    ELSE IF ~Serializable(val) THEN [err |-> ErrMarshalFailed, ret |-> "", v |-> v]
    ELSE [err |-> Nil, ret |-> "",
          v |-> [ok |-> TRUE, Val |-> Serialize(val),
                 TTL |-> IF ttlSeconds = 0 THEN 0 ELSE t + ttlSeconds,
                 IsList |-> FALSE, List |-> <<>>]]

AtomicGet(v, t) ==
    IF AtomicGone(v, t) THEN [err |-> ErrKeyNotFound, ret |-> "", v |-> ZeroValue]
    ELSE IF v.IsList THEN [err |-> ErrTypeMismatch, ret |-> "", v |-> v]
    ELSE [err |-> Nil, ret |-> v.Val, v |-> v]

AtomicUpdate(v, val, t) ==
    IF ~Serializable(val) THEN [err |-> ErrMarshalFailed, ret |-> "", v |-> v]
    ELSE IF AtomicGone(v, t) THEN [err |-> ErrKeyNotFound, ret |-> "", v |-> ZeroValue]
    ELSE IF v.IsList THEN [err |-> ErrTypeMismatch, ret |-> "", v |-> v]
    ELSE [err |-> Nil, ret |-> "", v |-> [v EXCEPT !.Val = Serialize(val)]]

AtomicRemove(v) ==
    IF ~v.ok THEN [err |-> ErrKeyNotFound, ret |-> "", v |-> v]
    ELSE [err |-> Nil, ret |-> "", v |-> ZeroValue]

AtomicPush(v, item, t) ==
    IF ~Serializable(item) THEN [err |-> ErrMarshalFailed, ret |-> "", v |-> v]
    ELSE IF AtomicGone(v, t) THEN [err |-> Nil, ret |-> "", v |-> NewList(item)]
    ELSE IF ~v.IsList THEN [err |-> ErrTypeMismatch, ret |-> "", v |-> v]
    ELSE [err |-> Nil, ret |-> "",
          v |-> [v EXCEPT !.List = <<Serialize(item)>> \o v.List]]

AtomicPop(v, t) ==
    IF AtomicGone(v, t) THEN [err |-> ErrKeyNotFound, ret |-> "", v |-> ZeroValue]
    ELSE IF ~v.IsList THEN [err |-> ErrTypeMismatch, ret |-> "", v |-> v]
    ELSE IF v.List = <<>> THEN [err |-> ErrEmptyList, ret |-> "", v |-> v]
    ELSE [err |-> Nil, ret |-> v.List[1], v |-> [v EXCEPT !.List = Tail(v.List)]]

AtomicStore(op, v, val, ttlSeconds, t) ==
    CASE op = "Set" -> AtomicSet(v, val, ttlSeconds, t)
      [] op = "Get" -> AtomicGet(v, t)
      [] op = "Update" -> AtomicUpdate(v, val, t)
      [] op = "Remove" -> AtomicRemove(v)
      [] op = "Push" -> AtomicPush(v, val, t)
      [] op = "Pop" -> AtomicPop(v, t)

\* C20: the concurrent store is linearizable.  Every operation takes effect in
\* one step between its call and its return, the step in which it returns
\* (for Get, the read under the read lock if it answers there, otherwise the
\* re-fetch under the write lock): there its answer and the whole map after it
\* are those of the atomic store run on the map and clock of that step.  No
\* other step of a caller changes the map, and a step of the sweep changes it
\* at most by deleting one entry whose expiresAt has passed.  The steps of a
\* behaviour, in their order, are then the sequential execution.
C20_Linearizable ==
    [][IF resp'.op # "none"
       THEN LET k == resp'.key
                o == AtomicStore(resp'.op, data[k], resp'.val, resp'.ttl, now)
            IN  /\ pc[resp'.t] \in {"idle", "GetR", "GetW", resp'.op}
                /\ pc'[resp'.t] = "idle"
                /\ resp'.err = o.err
                /\ resp'.ret = o.ret
                /\ data' = [data EXCEPT ![k] = o.v]
       ELSE \/ data' = data
            \/ /\ \E w \in Workers : wpc[w] = "scan"
               /\ \E k \in Keys : /\ InThePast(data[k], now)
                                   /\ data' = [data EXCEPT ![k] = ZeroValue]]_vars

\* A Get has just answered, after its lock upgrade, with the value of an
\* entry that was set while it waited for the write lock: under the read lock
\* it had seen another entry, whose expiresAt had passed, and the entry it
\* answered from is still in the map.
C20_Witness ==
    /\ resp.op = "Get" /\ resp.err = Nil
    /\ InThePast(resp.seen, now)
    /\ resp.v # resp.seen /\ resp.v.TTL > now
    /\ resp.ret = resp.v.Val
    /\ data[resp.key] = resp.v

----------------------------------------------------------------------------
\* C21: Get never deletes an entry that is not expired.  A step in which a Get
\* returns changes the map at most by deleting, at its key, an entry whose
\* expiresAt has passed; and a Get that saw an expired entry under the read
\* lock answers, under the write lock, from the entry that is at the key
\* then: KeyNotFound if there is none (or an expired one, which it deletes),
\* TypeMismatch for a List, the value of a live Scalar, which it leaves as
\* it is.
C21_GetRefetches ==
    [][\A t \in Threads :
          (resp'.op = "Get" /\ resp'.t = t) =>
              LET k == arg[t].key
                  v == data[k] IN
              /\ \/ data' = data
                 \/ InThePast(v, now) /\ data' = [data EXCEPT ![k] = ZeroValue]
              /\ pc[t] = "GetW" =>
                    /\ arg[t].v.ok /\ arg[t].v.TTL # 0 /\ arg[t].v.TTL <= now
                    /\ ~v.ok => (resp'.err = ErrKeyNotFound /\ data' = data)
                    /\ InThePast(v, now) => (resp'.err = ErrKeyNotFound /\ ~data'[k].ok)
                    /\ (Present(v, now) /\ v.IsList)
                          => (resp'.err = ErrTypeMismatch /\ data' = data)
                    /\ (Present(v, now) /\ ~v.IsList)
                          => (resp'.err = Nil /\ resp'.ret = v.Val /\ data' = data)]_vars

\* A Get has just answered TypeMismatch after its lock upgrade: under the read
\* lock it had seen an expired Scalar, which a Push replaced by a List before
\* the Get had the write lock, and the List is intact.
C21_Witness ==
    /\ resp.op = "Get" /\ resp.err = ErrTypeMismatch
    /\ InThePast(resp.seen, now) /\ ~resp.seen.IsList
    /\ resp.v.IsList /\ resp.v.List # <<>>
    /\ data[resp.key] = resp.v

----------------------------------------------------------------------------
\* the worker goroutines that hold the store's current token, not cancelled
Running == {w \in Workers : wpc[w] # "none" /\ ttlCtx # 0 /\ wctx[w] = ttlCtx
                                /\ wctx[w] \notin cancelled}

\* C22: the store is constructed with its expiry worker running, and with no
\* StartTTLWorker and no StopTTLWorker call every entry whose expiresAt has
\* passed leaves the map in the end (deleted, if no caller writes the key
\* again), whatever the callers do or do not do, under fair scheduling of the
\* worker.
C22_SweptInTheEnd ==
    /\ Running = {WorkerId}
    /\ \A k \in Keys : InThePast(data[k], now) ~> ~InThePast(data[k], now)

\* The worker has deleted an expired entry in its scan: both callers are in
\* the middle of a Get that saw the entry under the read lock and has done
\* nothing since, and the entry is gone.
C22_Witness ==
    /\ \A t \in Threads : pc[t] = "GetU" /\ arg[t].key = "k1" /\ arg[t].v.ok
    /\ wpc[WorkerId] = "scan"
    /\ ~data["k1"].ok

----------------------------------------------------------------------------
\* C23: a sweep tick that runs to completion deletes every entry whose
\* expiresAt is non-zero and in the past, and nothing else.  The scan starts
\* with every key of the map to visit; each of its steps visits one of them
\* and deletes its entry if the expiresAt is non-zero and in the past, and
\* otherwise leaves the entry (key, kind, value, list, expiresAt) and every
\* other entry as they are; the scan ends only when no key is left to visit;
\* and no other step changes the map meanwhile.
C23_SweepDeletesExpiredOnly ==
    [][\A w \in Workers :
          /\ (wpc[w] = "wait" /\ wpc'[w] = "scan")
                => (wrem'[w] = {k \in Keys : data[k].ok} /\ data' = data)
          /\ (wpc[w] = "scan" /\ wpc'[w] = "scan")
                => \/ wrem'[w] = wrem[w] /\ data' = data
                   \/ \E k \in wrem[w] :
                         /\ wrem'[w] = wrem[w] \ {k}
                         /\ data' = [data EXCEPT
                                        ![k] = IF InThePast(data[k], now)
                                               THEN ZeroValue ELSE data[k]]
          /\ (wpc[w] = "scan" /\ wpc'[w] = "wait")
                => (wrem[w] = {} /\ data' = data)]_vars

\* A scan has come to its end: it deleted the entry of k1, which the one
\* caller had seen expired in a Get that has done nothing since, and it kept
\* the entry of k2, whose expiresAt has not passed.
C23_Witness ==
    /\ wpc[WorkerId] = "scan" /\ wrem[WorkerId] = {}
    /\ pc["t1"] = "GetU" /\ arg["t1"].key = "k1" /\ arg["t1"].v.ok
    /\ ~data["k1"].ok
    /\ data["k2"].ok /\ data["k2"].TTL >= now

----------------------------------------------------------------------------
\* C24 as stated: with the worker stopped (s.ttlCtx nil), every Get, Update
\* and Pop on a key whose entry has its expiresAt in the past fails with
\* KeyNotFound and deletes the entry, and every Push on such a key replaces
\* the entry by a List of the pushed item.
C24_AnyAccessWhenStopped ==
    [][\A k \in Keys :
          (ttlCtx = 0 /\ resp'.key = k /\ InThePast(data[k], now))
          => /\ resp'.op \in {"Get", "Update", "Pop"}
                   => (resp'.err = ErrKeyNotFound /\ ~data'[k].ok)
             /\ resp'.op = "Push"
                   => (resp'.err = Nil /\ data'[k] = NewList(resp'.val))]_vars

\* C24, amended: with the worker stopped, Get, Pop and Update with a
\* serializable value on a key whose entry has its expiresAt in the past fail
\* with KeyNotFound and delete the entry, and Push of a serializable item
\* replaces it by a List of that item; Update and Push with an unserializable
\* argument fail with SerializationFailure and leave the expired entry; every
\* operation answers and leaves the map as the atomic store does, as it does
\* with the worker running.
C24_LazyWhenStopped ==
    [][\A k \in Keys :
          (ttlCtx = 0 /\ resp'.op # "none" /\ resp'.op # "Stop" /\ resp'.key = k)
          => LET o == AtomicStore(resp'.op, data[k], resp'.val, resp'.ttl, now) IN
             /\ resp'.err = o.err /\ resp'.ret = o.ret
             /\ data' = [data EXCEPT ![k] = o.v]
             /\ InThePast(data[k], now) =>
                   /\ resp'.op \in {"Get", "Pop"}
                         => (resp'.err = ErrKeyNotFound /\ ~data'[k].ok)
                   /\ (resp'.op = "Update" /\ Serializable(resp'.val))
                         => (resp'.err = ErrKeyNotFound /\ ~data'[k].ok)
                   /\ (resp'.op = "Push" /\ Serializable(resp'.val))
                         => (resp'.err = Nil /\ data'[k] = NewList(resp'.val))
                   /\ (resp'.op \in {"Update", "Push"} /\ ~Serializable(resp'.val))
                         => (resp'.err = ErrMarshalFailed /\ data' = data)]_vars

\* The worker was stopped and its goroutine has returned; an Update has just
\* found an entry whose expiresAt had passed, failed with KeyNotFound and
\* deleted it.
C24_Witness ==
    /\ ttlCtx = 0 /\ \A w \in Workers : wpc[w] = "none"
    /\ resp.op = "Update" /\ resp.err = ErrKeyNotFound
    /\ InThePast(resp.v, now)
    /\ ~data[resp.key].ok

----------------------------------------------------------------------------
\* C25: StopTTLWorker is idempotent.  Every StopTTLWorker that has the lock
\* returns, without a failure, and leaves the worker stopped (s.ttlCtx nil)
\* and the map as it was; one that finds the worker stopped already (after
\* another call, of the same or of another caller) changes nothing at all:
\* no token, no goroutine, no entry.
C25_StopIdempotent ==
    [][\A t \in Threads :
          /\ pc[t] = "Stop" => mu.w = t
          /\ (pc[t] = "Stop" /\ pc'[t] # "Stop")
                => /\ pc'[t] = "idle" /\ mu'.w = "none"
                   /\ resp'.op = "Stop" /\ resp'.t = t /\ resp'.err = Nil
                   /\ ttlCtx' = 0
                   /\ data' = data
                   /\ ttlCtx = 0 => UNCHANGED <<data, now, worker, hist>>]_vars

\* A StopTTLWorker has just returned that found the worker stopped already,
\* the other caller being in a StopTTLWorker too; the entry in the map is
\* still there.
C25_Witness ==
    /\ resp.op = "Stop" /\ resp.err = Nil /\ resp.old = 0
    /\ \E t \in Threads : pc[t] = "StopL"
    /\ ttlCtx = 0
    /\ data["k1"].ok

----------------------------------------------------------------------------
\* C26: a stopped worker can always be restarted.  StartTTLWorker makes a
\* fresh token current (not cancelled, held by no goroutine yet), whether the
\* worker was stopped or not; when it returns, with no StopTTLWorker in
\* between, a goroutine runs on the current, not cancelled token; and while
\* one does, every entry whose expiresAt has passed leaves the map in the end,
\* unless the worker is stopped or restarted first.
C26_Restart ==
    /\ [][/\ \A t \in Threads :
               (pc[t] = "Start" /\ pc'[t] # "Start")
                   => /\ ttlCtx' # 0 /\ ttlCtx' # ttlCtx
                      /\ ttlCtx' \notin cancelled'
                      /\ \A w \in Workers : wctx'[w] # ttlCtx'
                      /\ ttlCtx # 0 => \A w \in Workers :
                                           wctx'[w] = ttlCtx => ttlCtx \in cancelled'
          /\ (resp'.op = "Start" /\ ttlCtx' # 0) => Running' # {}]_vars
    /\ \A k \in Keys :
          (Running # {} /\ InThePast(data[k], now))
              ~> (~InThePast(data[k], now) \/ Running = {})

\* A StartTTLWorker that found the worker stopped has just returned: a
\* goroutine runs on the new token, and an entry whose expiresAt has passed is
\* in the map for it to sweep.
C26_Witness ==
    /\ resp.op = "Start" /\ resp.old = 0
    /\ Running # {}
    /\ InThePast(data["k1"], now)

----------------------------------------------------------------------------
\* the worker goroutines whose token is not cancelled
Uncancelled == {w \in Workers : wpc[w] # "none" /\ wctx[w] \notin cancelled}

\* C27: there is a single sweep task: at every moment at most one worker
\* goroutine exists whose cancellation token is not cancelled, whether
\* StartTTLWorker is called while the worker runs or several StartTTLWorker
\* calls run concurrently.
C27_SingleWorker == Cardinality(Uncancelled) <= 1

----------------------------------------------------------------------------
\* C28: a stop request (StopTTLWorker or a restart) issued while a scan is in
\* progress interrupts the scan before it has visited every entry: a worker
\* on the current token, in whose present scan the request was made while it
\* had entries still to visit, does not go on to visit the last of them.
C28_InterruptedMidScan ==
    [][\A w \in Workers :
          (wpc[w] = "scan" /\ wctx[w] = ttlCtx /\ w \in wreq /\ wrem[w] # {})
              => (wrem'[w] # {} \/ wpc'[w] = "none")]_vars
\* The key whose entry changed kind in the step: it holds an entry before and
\* after, a List on one side and a Scalar on the other.
KindChanged(k) == data[k].ok /\ data'[k].ok /\ data'[k].IsList # data[k].IsList

\* C29 as stated: the kind of an entry is fixed for its lifetime; a step in
\* which the kind at a key changes is the Push that replaces an expired entry
\* by a new list (a Remove followed by Set or Push takes two steps), so no
\* single operation changes the kind of a live entry.
C29_KindFixed ==
    [][\A k \in Keys :
          KindChanged(k) =>
              (resp'.op = "Push" /\ resp'.key = k /\ InThePast(data[k], now))]_vars

\* C29 amended: a step in which the kind at a key changes is either the Push
\* that replaces an expired Scalar by a new list, or a successful Set on that
\* key, which replaces the List it finds by a Scalar; Get, Update, Pop, Remove,
\* a Push on a live entry and the sweep never change the kind of an entry.
C29_KindChangesBySetOrPush ==
    [][\A k \in Keys :
          KindChanged(k) =>
              \/ /\ resp'.op = "Push" /\ resp'.key = k /\ resp'.err = Nil
                 /\ InThePast(data[k], now)
                 /\ ~data[k].IsList
              \/ /\ resp'.op = "Set" /\ resp'.key = k /\ resp'.err = Nil
                 /\ data[k].IsList]_vars

\* A Set found a live List at its key and left a Scalar there.
C29_Witness ==
    /\ resp.op = "Set"
    /\ Present(resp.v, now)
    /\ resp.v.IsList
    /\ data[resp.key].ok
    /\ ~data[resp.key].IsList

\* A Push found an expired Scalar at its key and left a List there.
C29_PushWitness ==
    /\ resp.op = "Push"
    /\ resp.v.ok
    /\ ~resp.v.IsList
    /\ data[resp.key].ok
    /\ data[resp.key].IsList
\* The Set handler answered a request whose body decoded with ttl_seconds <= 0.
NonPositiveTTL(r) == r.req.h = "SetHandler" /\ r.req.json /\ r.req.TTLSeconds <= 0

\* The handler's answer to a ttl_seconds <= 0, given without a call of the store.
TTLRefused(r) ==
    /\ r.status = StatusBadRequest
    /\ r.error = <<"TTL is required and must be greater than 0">>
    /\ r.op = "none"

\* C30 as stated: the Set handler answers every request with ttl_seconds <= 0
\* with status 400 and the error "TTL is required and must be greater than
\* 0", without a call of the store, and no entry of a store that only the
\* HTTP API writes to is without expiration.
C30_NoEntryWithoutExpiration ==
    /\ NonPositiveTTL(resp) => TTLRefused(resp)
    /\ \A k \in Keys : data[k].ok => data[k].TTL # 0

\* C30 amended: the Set handler answers every POST request with a key and
\* ttl_seconds <= 0 with status 400 and the error "TTL is required and must be
\* greater than 0"; every request with ttl_seconds <= 0 is refused (400 or
\* 405) without a call of the store and leaves the map as it was; and no
\* Scalar of a store that only the HTTP API writes to is without expiration.
C30_NoScalarWithoutExpiration ==
    [][/\ (NonPositiveTTL(resp') /\ resp'.req.method = "POST" /\ resp'.req.Key # "")
              => TTLRefused(resp')
       /\ NonPositiveTTL(resp')
              => /\ resp'.status \in {StatusBadRequest, StatusMethodNotAllowed}
                 /\ resp'.op = "none"
                 /\ data' = data
       /\ \A k \in Keys : (data'[k].ok /\ ~data'[k].IsList) => data'[k].TTL # 0]_vars

\* The Set handler refused a POST with ttl_seconds <= 0 for a key that holds
\* an entry.
C30_Witness ==
    /\ NonPositiveTTL(resp)
    /\ resp.req.method = "POST"
    /\ resp.req.Key \in Keys
    /\ TTLRefused(resp)
    /\ data[resp.req.Key].ok
\* C31: a Pop request through the HTTP API on a key that holds an empty list
\* is answered 400 with the error "List is empty", and one on an absent or
\* expired key is answered 404.
C31_PopStatuses ==
    (resp.req.h = "PopHandler" /\ resp.op = "Pop") =>
        /\ (Present(resp.v, now) /\ resp.v.IsList /\ resp.v.List = <<>>)
               => (resp.status = StatusBadRequest /\ resp.error = <<"List is empty">>)
        /\ (~resp.v.ok \/ InThePast(resp.v, now)) => resp.status = StatusNotFound
\* The error a client method returned holds the text.
Contains(err, text) == \E i \in DOMAIN err : err[i] = text

\* C32: Client.Set returns an error whose message contains "TTL is required
\* and must be greater than 0" for ttlSeconds = 0 and for every negative
\* ttlSeconds, whatever server it talks to.
C32_ClientSetValidatesTTL ==
    (resp.req.c = "Set" /\ resp.req.TTLSeconds <= 0) =>
        Contains(resp.cerr, "TTL is required and must be greater than 0")

\* C33: Client.Remove on a key that is not in the store returns nil, the
\* client talking to the HTTP handler backed by the store.
C33_ClientRemoveMissing ==
    (resp.req.c = "Remove" /\ resp.op = "Remove" /\ ~resp.v.ok) => resp.cerr = <<>>
\* The sections in which a caller reads or writes the map under s.mu.Lock().
WriteSections == {"Set", "GetW", "Update", "Remove", "Push", "Pop"}

\* The callers and workers inside a critical section of the map: the writers
\* (between mu.Lock() and mu.Unlock()) and the readers (Get between
\* mu.RLock() and mu.RUnlock()).
Writers == {t \in Threads : pc[t] \in WriteSections} \cup {w \in Workers : wpc[w] = "scan"}
Readers == {t \in Threads : pc[t] = "GetR"}

\* Each writer holds the exclusive lock, each reader the shared lock, and a
\* writer is alone in its critical section.
Exclusion ==
    /\ \A h \in Writers : mu.w = h
    /\ \A t \in Readers : t \in mu.r
    /\ Cardinality(Writers) <= 1
    /\ Writers # {} => Readers = {}

\* C34: lock discipline.  Every step that changes the map is taken by the
\* holder of the exclusive lock (the caller that returns in the step, or the
\* worker that visits a key in it); every read of the map is made in a
\* critical section, whose occupant holds the exclusive or the shared lock;
\* and a writer is never in its critical section together with a reader or
\* another writer.
C34_LockDiscipline ==
    [][/\ Exclusion'
       /\ data' # data =>
              /\ mu.w \in Writers
              /\ \/ resp'.t = mu.w
                 \/ mu.w \in Workers /\ wrem'[mu.w] # wrem[mu.w]
       /\ \A k \in Keys : data'[k] # data[k] =>
              \/ resp'.t = mu.w /\ resp'.key = k
              \/ mu.w \in Workers /\ k \in wrem[mu.w]]_vars

\* A Get holds the write lock for its lazy delete while the other caller,
\* which found the same entry expired, waits for the lock.
C34_Witness ==
    /\ pc["t1"] = "GetW"
    /\ mu.w = "t1"
    /\ pc["t2"] = "GetU"
    /\ InThePast(data[arg["t1"].key], now)
\* The slot holds a List with no items.
EmptyList(v) == v.ok /\ v.IsList /\ v.List = <<>>

\* The step is the return of operation op on key k.
Returns(op, k) == resp'.op = op /\ resp'.key = k

\* What C35 says of Pop, Get, the sweep, lazy expiration, Remove and Set, at
\* key k: a Pop that takes the last item leaves an empty List; on an empty
\* List a Pop fails with EmptyList and a Get with TypeMismatch, both leaving
\* it, and only a successful Remove or Set takes it away.
EmptyListStays(k) ==
    /\ (Returns("Pop", k) /\ resp'.err = Nil /\ Present(data[k], now)
           /\ Len(data[k].List) = 1) => EmptyList(data'[k])
    /\ EmptyList(data[k]) =>
          /\ Returns("Pop", k) => (resp'.err = ErrEmptyList /\ data'[k] = data[k])
          /\ Returns("Get", k) => (resp'.err = ErrTypeMismatch /\ data'[k] = data[k])
          /\ ~EmptyList(data'[k]) =>
                 /\ resp'.key = k
                 /\ resp'.err = Nil
                 /\ resp'.op \in {"Set", "Remove", "Push"}
                 /\ resp'.op = "Push" => (data'[k].ok /\ data'[k].IsList)

\* C35 as stated: after the last item of a list is popped the key holds an
\* empty List; a further Pop fails with EmptyList, Get and Update fail with
\* TypeMismatch, a Push adds its item to the same entry, and neither the sweep
\* nor lazy expiration removes the empty list, only Remove or Set does.
C35_EmptyListPersists ==
    [][\A k \in Keys :
          /\ EmptyListStays(k)
          /\ EmptyList(data[k]) =>
                /\ Returns("Update", k) =>
                       (resp'.err = ErrTypeMismatch /\ data'[k] = data[k])
                /\ Returns("Push", k) =>
                       /\ resp'.err = Nil
                       /\ data'[k] = [data[k] EXCEPT !.List = <<Serialize(resp'.val)>>]]_vars

\* C35 amended: as stated for Pop, Get, the sweep, lazy expiration, Remove
\* and Set; an Update with a serializable value fails with TypeMismatch and a
\* Push of a serializable item adds it to the same entry, while an Update or
\* Push with an unserializable argument fails with SerializationFailure; a
\* failed call leaves the empty List as it is.
C35_EmptyListPersistsSerializable ==
    [][\A k \in Keys :
          /\ EmptyListStays(k)
          /\ EmptyList(data[k]) =>
                /\ Returns("Update", k) =>
                       /\ resp'.err = IF Serializable(resp'.val) THEN ErrTypeMismatch
                                      ELSE ErrMarshalFailed
                       /\ data'[k] = data[k]
                /\ Returns("Push", k) =>
                       IF Serializable(resp'.val)
                       THEN /\ resp'.err = Nil
                            /\ data'[k] = [data[k] EXCEPT !.List = <<Serialize(resp'.val)>>]
                       ELSE /\ resp'.err = ErrMarshalFailed
                            /\ data'[k] = data[k]]_vars

\* A Pop on a list that an earlier Pop emptied failed with EmptyList, and the
\* empty List is still at the key after the clock has moved on.
C35_Witness ==
    /\ resp.op = "Pop"
    /\ resp.err = ErrEmptyList
    /\ EmptyList(resp.v)
    /\ EmptyList(data[resp.key])
    /\ now > 1
\* The callers that hold or are about to release a lock: those between
\* mu.Lock() and mu.Unlock(), and those between mu.RLock() and mu.RUnlock().
LockSections == WriteSections \cup {"Start", "Stop"}
RLockSections == {"GetR", "DoStartR"}

\* Whoever holds s.mu is inside a section that ends with its release: a
\* caller that has returned, a worker that waits for its ticker or has
\* returned, and a caller on its way to mu.Lock() or mu.RLock() hold nothing.
HoldersInside ==
    /\ mu.w \in Threads => pc[mu.w] \in LockSections
    /\ mu.w \in Workers => wpc[mu.w] = "scan"
    /\ \A t \in mu.r : pc[t] \in RLockSections

\* C36: the store is deadlock-free.  Every operation and the sweep release the
\* lock on every return path, a caller on its way to the lock (Get's upgrade,
\* StartTTLWorker before and after its first critical section, StopTTLWorker)
\* holds none, and so every call made returns and every scan begun ends: no
\* caller or worker is blocked forever.
C36_DeadlockFree ==
    /\ []HoldersInside
    /\ \A t \in Threads : (pc[t] # "idle") ~> (pc[t] = "idle")
    /\ \A w \in Workers : (wpc[w] = "scan") ~> (wpc[w] # "scan")

\* A Get waits for the write lock that the worker holds in its scan, while
\* the second caller waits to stop the worker.
C36_Witness ==
    /\ pc["t1"] = "GetU"
    /\ pc["t2"] \in {"StopL", "StartL"}
    /\ \E w \in Workers : mu.w = w /\ wpc[w] = "scan"
\* The workers whose token has been cancelled (by a StopTTLWorker or by a
\* restart that replaced it).
Cancelled == {w \in Workers : wpc[w] # "none" /\ wctx[w] \in cancelled}

\* The step is one of worker w.
WorkerStep(w) == wpc'[w] # wpc[w] \/ wrem'[w] # wrem[w]

\* C37: a worker whose token has been cancelled deletes nothing afterwards,
\* even when it still wins a tick: none of its steps changes the map, and an
\* entry leaves the map only by a caller's operation on its key (a lazy
\* access, a Remove) or by a worker whose token is not cancelled.
C37_CancelledWorkerDeletesNothing ==
    [][/\ \A w \in Cancelled : WorkerStep(w) => data' = data
       /\ \A k \in Keys : (data[k].ok /\ ~data'[k].ok) =>
              \/ resp'.key = k /\ resp'.op \in LazyOps \cup {"Remove"}
              \/ mu.w \in Workers \ Cancelled]_vars

\* A worker whose token is cancelled has won a tick and holds the lock for
\* its scan, with an expired entry to visit.
C37_Witness ==
    \E w \in Cancelled :
        /\ wpc[w] = "scan"
        /\ \E k \in wrem[w] : InThePast(data[k], now)
\* The worker goroutines that exist.
Started == {w \in Workers : wpc[w] # "none"}

\* The worker is stopped and no StartTTLWorker call is under way.
Stopped == ttlCtx = 0 /\ \A t \in Threads : pc[t] \notin {"StartL", "Start", "DoStart", "DoStartR"}

\* C38: no worker is leaked.  Every worker goroutine, however it was started,
\* holds the store's current token or a cancelled one, and once the worker is
\* stopped, with no StartTTLWorker call after that, every worker goroutine
\* returns.
C38_NoWorkerLeaked ==
    /\ [](\A w \in Started : wctx[w] = ttlCtx \/ wctx[w] \in cancelled)
    /\ Stopped ~> (Started = {} \/ ~Stopped)

\* Two worker goroutines started by concurrent StartTTLWorker calls are both
\* on the current token.
C38_Witness ==
    /\ Cardinality(Started) = 2
    /\ \A w \in Started : wctx[w] = ttlCtx
    /\ resp.op = "Start"
\* The step is the return of operation op with the error err, the map left
\* as it was.
Refused(op, err) == resp'.op = op /\ resp'.err = err /\ data' = data

\* C39: argument validation precedes every look at the key.  Update and Push
\* with an unserializable value fail with SerializationFailure whatever is at
\* the key (nothing, an expired entry, an entry of the other kind), and the
\* map stays as it was, an expired entry at the key included; Set with a
\* negative TTL and an unserializable value fails with InvalidTTL.
C39_ValidationFirst ==
    [][/\ (resp'.op \in {"Update", "Push"} /\ ~Serializable(resp'.val))
              => Refused(resp'.op, ErrMarshalFailed)
       /\ (resp'.op = "Set" /\ resp'.ttl < 0 /\ ~Serializable(resp'.val))
              => Refused("Set", ErrInvalidTTL)]_vars

\* A Set with a negative TTL and an unserializable value has failed with
\* InvalidTTL on a key whose entry has expired.
C39_Witness ==
    /\ resp.op = "Set"
    /\ resp.ttl < 0
    /\ ~Serializable(resp.val)
    /\ resp.err = ErrInvalidTTL
    /\ InThePast(data[resp.key], now)

\* An Update and a Push with an unserializable value failed on an absent key,
\* on an expired entry and on an entry of the other kind.
C39_UpdateAbsent ==
    resp.op = "Update" /\ resp.err = ErrMarshalFailed /\ ~data[resp.key].ok
C39_PushExpired ==
    resp.op = "Push" /\ resp.err = ErrMarshalFailed /\ InThePast(data[resp.key], now)
C39_PushScalar ==
    /\ resp.op = "Push" /\ resp.err = ErrMarshalFailed
    /\ Present(data[resp.key], now) /\ ~data[resp.key].IsList
C39_UpdateList ==
    /\ resp.op = "Update" /\ resp.err = ErrMarshalFailed
    /\ Present(data[resp.key], now) /\ data[resp.key].IsList
\* The operations of the callers on the map.
Operations == {"Set", "Get", "Update", "Remove", "Push", "Pop"}

\* C40: a caller's operation on key k, successful or failed, leaves the
\* entries of all the other keys as they were, expired ones included, and a
\* Get on a key that is absent or holds an entry that has not expired changes
\* nothing; a step that changes the entry of a key is the return of an
\* operation on that key or a step of the sweep.
C40_Frame ==
    [][/\ resp'.op \in Operations =>
              /\ \A k \in Keys \ {resp'.key} : data'[k] = data[k]
              /\ (resp'.op = "Get" /\ ~InThePast(data[resp'.key], now)) => data' = data
       /\ \A k \in Keys : data'[k] # data[k] =>
              \/ resp'.op \in Operations /\ resp'.key = k
              \/ mu.w \in Workers]_vars

\* A Get found its key expired and deleted it, and the expired entry of the
\* other key is still in the map.
C40_Witness ==
    /\ resp.op = "Get"
    /\ InThePast(resp.v, now)
    /\ ~data[resp.key].ok
    /\ \E k \in Keys \ {resp.key} : InThePast(data[k], now)
====
